---- MODULE Spec2Model ----
(***************************************************************************)
(* A model of the paws workflow engine: the DictTree store                 *)
(* (paws/core/models/DictTree.py), the TreeModel index over it             *)
(* (paws/core/models/TreeModel.py), the Workflow resolver and execution    *)
(* driver (paws/core/workflow/Workflow.py) and the PawsAPI entry points    *)
(* (paws/api/__init__.py).                                                 *)
(*                                                                         *)
(* Python strings are modelled as sequences of one-character strings, so   *)
(* that split('.'), rfind('.'), concatenation and the substring test       *)
(* `a in b` are computed and not assumed.  A Python exception is modelled  *)
(* as a result record with ok = FALSE.                                     *)
(***************************************************************************)
EXTENDS Integers, Sequences, FiniteSets, TLC

VARIABLES
    dt,       \* a DictTree on its own: [root, all_uris]
    stored,   \* history: the URIs written to dt by set_uri and not deleted since
    wf,       \* a Workflow: its DictTree, its TreeItems (spec-modelled flags)
    opman,    \* the operation manager's activation flag per operation name
    paw,      \* a PawsAPI with its workflow manager: the named Workflows, the current name
    ret,      \* the last call and what it returned or raised
    ncalls,   \* the number of calls made so far
    wf_threads, \* WfManager._wf_threads: per thread index (from 0) a thread or None
    finished, \* the threads for which isFinished() is true
    pc        \* where the caller of wait_for_thread or next_available_thread stands

vars == <<dt, stored, wf, opman, paw, ret, ncalls, wf_threads, finished, pc>>

\* Bounds of the model: the number of calls explored on a DictTree and on a Workflow.
MaxTreeCalls == 4
MaxWfCalls == 6
\* ... and the number of item calls explored on a TreeModel
MaxItemCalls == 3
\* ... and on a PawsAPI that holds several Workflows
MaxApiCalls == 5

-----------------------------------------------------------------------------
(* Python strings *)

Dot == "."

HasDot(s) == \E i \in 1..Len(s) : s[i] = Dot

\* str.rfind('.') + 1: the position of the last '.', 0 when there is none
RFind(s) ==
    IF HasDot(s)
    THEN CHOOSE i \in 1..Len(s) : s[i] = Dot /\ \A j \in (i+1)..Len(s) : s[j] # Dot
    ELSE 0

Find(s) ==
    IF HasDot(s)
    THEN CHOOSE i \in 1..Len(s) : s[i] = Dot /\ \A j \in 1..(i-1) : s[j] # Dot
    ELSE 0

\* uri[:uri.rfind('.')]
UpToLastDot(s) == SubSeq(s, 1, RFind(s) - 1)

\* str.split('.')
RECURSIVE Split(_)
Split(s) ==
    IF ~HasDot(s) THEN <<s>>
    ELSE <<SubSeq(s, 1, Find(s) - 1)>> \o Split(SubSeq(s, Find(s) + 1, Len(s)))

Last(q) == q[Len(q)]

\* a in b, for strings
IsSubstring(a, b) ==
    \E i \in 0..(Len(b) - Len(a)) : SubSeq(b, i + 1, i + Len(a)) = a

\* any(path), for a list of strings: some element is not empty
AnyOf(path) == \E i \in 1..Len(path) : path[i] # <<>>

Digits == <<"0", "1", "2", "3", "4", "5", "6", "7", "8", "9">>

IsDigit(c) == \E d \in 1..10 : Digits[d] = c

DigitValue(c) == (CHOOSE d \in 1..10 : Digits[d] = c) - 1

RECURSIVE Decimal(_)
Decimal(s) == IF s = <<>> THEN 0 ELSE 10 * Decimal(SubSeq(s, 1, Len(s) - 1)) + DigitValue(Last(s))

\* int(k): an optional sign and decimal digits, ValueError otherwise
IntOf(k) ==
    LET body == IF k # <<>> /\ k[1] = "-" THEN Tail(k) ELSE k
    IN  IF body # <<>> /\ \A i \in 1..Len(body) : IsDigit(body[i])
        THEN [ok |-> TRUE, n |-> IF body = k THEN Decimal(body) ELSE 0 - Decimal(body)]
        ELSE [ok |-> FALSE]

\* '{}'.format(n) for n >= 0
RECURSIVE Str(_)
Str(n) == IF n < 10 THEN <<Digits[n + 1]>> ELSE Str(n \div 10) \o <<Digits[(n % 10) + 1]>>

-----------------------------------------------------------------------------
(* Python values held in a DictTree *)

None == [tp |-> "none"]
Leaf(v) == [tp |-> "leaf", v |-> v]
\* an OrderedDict: its items in insertion order
Dict(items) == [tp |-> "dict", items |-> items]
List(xs) == [tp |-> "list", xs |-> xs]
EmptyDict == Dict(<<>>)

inputs_tag == <<"i", "n", "p", "u", "t", "s">>
outputs_tag == <<"o", "u", "t", "p", "u", "t", "s">>

Raised == [ok |-> FALSE]

\* itm.keys(): a dict's keys in order; an Operation indexes its inputs and outputs
Keys(itm) ==
    IF itm.tp = "dict" THEN [i \in 1..Len(itm.items) |-> itm.items[i].k]
    ELSE <<inputs_tag, outputs_tag>>

HasKeys(itm) == itm.tp \in {"dict", "op"}

InSeq(x, q) == \E i \in 1..Len(q) : q[i] = x

IndexOf(x, q) == CHOOSE i \in 1..Len(q) : q[i] = x

\* itm[k], for k in itm.keys()
Item(itm, k) ==
    IF itm.tp = "dict" THEN itm.items[IndexOf(k, Keys(itm))].x
    ELSE IF k = inputs_tag THEN itm.inputs ELSE itm.outputs

\* the position of a Python list index, 0 when it is out of range
ListPos(xs, n) ==
    LET p == IF n >= 0 THEN n + 1 ELSE Len(xs) + n + 1
    IN  IF p \in 1..Len(xs) THEN p ELSE 0

\* the child one step below itm: a step is a key taken or a list position
KeyStep(k) == [kind |-> "key", k |-> k]
PosStep(p) == [kind |-> "pos", p |-> p]

Child(itm, step) == IF step.kind = "pos" THEN itm.xs[step.p] ELSE Item(itm, step.k)

WithChild(itm, step, new) ==
    IF step.kind = "pos" THEN [itm EXCEPT !.xs[step.p] = new]
    ELSE IF itm.tp = "dict"
         THEN [itm EXCEPT !.items[IndexOf(step.k, Keys(itm))].x = new]
         ELSE IF step.k = inputs_tag THEN [itm EXCEPT !.inputs = new]
              ELSE [itm EXCEPT !.outputs = new]

\* the tree with the item reached by steps replaced: Python mutates that item in place
RECURSIVE Replace(_, _, _)
Replace(itm, steps, new) ==
    IF steps = <<>> THEN new
    ELSE WithChild(itm, Head(steps), Replace(Child(itm, Head(steps)), Tail(steps), new))

-----------------------------------------------------------------------------
(* DictTree *)

NewDictTree == [root |-> EmptyDict, all_uris |-> <<>>]

\* The loop of get_from_uri: itm is the item reached, path the segments left, steps
\* the keys taken so far.  KeyWithDots is the inner loop that looks for a key holding '.'.
RECURSIVE Descend(_, _, _)
RECURSIVE KeyWithDots(_, _, _, _)
Descend(itm, path, steps) ==
    IF ~AnyOf(path) THEN [ok |-> TRUE, v |-> itm, steps |-> steps]
    ELSE LET k == Head(path)
             rest == Tail(path)
         IN  IF itm.tp = "list"
             THEN LET n == IntOf(k)
                      p == IF n.ok THEN ListPos(itm.xs, n.n) ELSE 0
                  IN  IF p = 0 THEN Raised
                      ELSE Descend(itm.xs[p], rest, Append(steps, PosStep(p)))
             ELSE IF ~HasKeys(itm) THEN Raised
             ELSE IF InSeq(k, Keys(itm))
                  THEN Descend(Item(itm, k), rest, Append(steps, KeyStep(k)))
                  ELSE KeyWithDots(itm, k, rest, steps)

KeyWithDots(itm, k, path, steps) ==
    IF path = <<>> THEN Raised
    ELSE LET k2 == k \o <<Dot>> \o Head(path)
             rest == Tail(path)
         IN  IF InSeq(k2, Keys(itm))
             THEN Descend(Item(itm, k2), rest, Append(steps, KeyStep(k2)))
             ELSE IF InSeq(k2 \o <<Dot>>, Keys(itm))
                  THEN Descend(Item(itm, k2 \o <<Dot>>), rest,
                               Append(steps, KeyStep(k2 \o <<Dot>>)))
                  ELSE KeyWithDots(itm, k2, rest, steps)

\* get_from_uri: [ok, v] and the steps taken from the root, or a KeyError
get_from_uri(t, uri) == Descend(t.root, Split(uri), <<>>)

\* SetItem changed to leave a key that is already present as it is
SetItem_keeps_existing(itm, k, val) ==
    IF itm.tp = "dict"
    THEN [ok |-> TRUE,
          v |-> IF InSeq(k, Keys(itm)) THEN itm
                ELSE Dict(Append(itm.items, [k |-> k, x |-> val]))]
    ELSE Raised

\* itm[k] = val as set_uri does it
SetItem(itm, k, val) ==
    IF itm.tp = "list"
    THEN LET n == IntOf(k)
             p == IF n.ok THEN ListPos(itm.xs, n.n) ELSE 0
         IN  IF p = 0 THEN Raised ELSE [ok |-> TRUE, v |-> [itm EXCEPT !.xs[p] = val]]
    ELSE IF itm.tp = "dict"
         THEN [ok |-> TRUE,
               v |-> IF InSeq(k, Keys(itm))
                     THEN WithChild(itm, KeyStep(k), val)
                     ELSE Dict(Append(itm.items, [k |-> k, x |-> val]))]
         ELSE Raised

\* del itm[k]
DelItem(itm, k) ==
    IF itm.tp = "dict" /\ InSeq(k, Keys(itm))
    THEN [ok |-> TRUE,
          v |-> Dict(SelectSeq(itm.items, LAMBDA e : e.k # k))]
    ELSE Raised

\* the item a uri's last segment is a key of: the root, or the item at uri[:rfind('.')]
ParentOf(t, uri) ==
    IF HasDot(uri) THEN get_from_uri(t, UpToLastDot(uri))
    ELSE [ok |-> TRUE, v |-> t.root, steps |-> <<>>]

\* set_uri once the parent item is at hand: k is the last segment of uri
SetUnder(t, uri, val, parent, k) ==
    IF ~parent.ok THEN [ok |-> FALSE, t |-> t]
    ELSE IF k = <<>> THEN [ok |-> TRUE, t |-> t]
    ELSE LET new == SetItem(parent.v, k, val)
         IN  IF ~new.ok THEN [ok |-> FALSE, t |-> t]
             ELSE [ok |-> TRUE,
                   t |-> [root |-> Replace(t.root, parent.steps, new.v),
                          all_uris |-> IF InSeq(uri, t.all_uris) THEN t.all_uris
                                       ELSE Append(t.all_uris, uri)]]

set_uri(t, uri, val) == SetUnder(t, uri, val, ParentOf(t, uri), Last(Split(uri)))

\* DeleteUnder changed to take only the deleted uri itself out of all_uris
DeleteUnder_exact(t, uri, parent, k) ==
    IF ~parent.ok THEN [ok |-> FALSE, t |-> t]
    ELSE IF k = <<>> THEN [ok |-> TRUE, t |-> t]
    ELSE LET new == DelItem(parent.v, k)
         IN  IF ~new.ok THEN [ok |-> FALSE, t |-> t]
             ELSE [ok |-> TRUE,
                   t |-> [root |-> Replace(t.root, parent.steps, new.v),
                          all_uris |-> SelectSeq(t.all_uris, LAMBDA testuri : testuri # uri)]]

\* delete_uri once the parent item is at hand: k is the last segment of uri
DeleteUnder(t, uri, parent, k) ==
    IF ~parent.ok THEN [ok |-> FALSE, t |-> t]
    ELSE IF k = <<>> THEN [ok |-> TRUE, t |-> t]
    ELSE LET new == DelItem(parent.v, k)
         IN  IF ~new.ok THEN [ok |-> FALSE, t |-> t]
             ELSE [ok |-> TRUE,
                   t |-> [root |-> Replace(t.root, parent.steps, new.v),
                          all_uris |-> SelectSeq(t.all_uris,
                                           LAMBDA testuri : ~IsSubstring(uri, testuri))]]

delete_uri(t, uri) == DeleteUnder(t, uri, ParentOf(t, uri), Last(Split(uri)))

contains_uri(t, uri) == InSeq(uri, t.all_uris)

is_uri_unique(t, uri) == ~InSeq(uri, t.all_uris)

root_keys(t) == Keys(t.root)

RECURSIVE NextUnique(_, _, _)
NextUnique(urilist, prefix, suffix) ==
    LET testuri == prefix \o <<"_">> \o Str(suffix)
    IN  IF ~InSeq(testuri, urilist) THEN testuri
        ELSE NextUnique(urilist, prefix, suffix + 1)

make_unique_uri(t, prefix) == NextUnique(t.all_uris, prefix, 0)

-----------------------------------------------------------------------------
(* TreeModel: TreeItems that index a DictTree *)

\* Workflow.__init__: the flags every TreeItem of a Workflow starts with
flag_dict == [select |-> FALSE, enable |-> TRUE]

create_tree_item(itm_tag) == [tag |-> itm_tag, flags |-> flag_dict, children |-> <<>>]

NewTreeModel == [tree |-> NewDictTree, root_item |-> create_tree_item(<<"R", "O", "O", "T">>)]

ChildTags(itm) == [i \in 1..Len(itm.children) |-> itm.children[i].tag]

\* the TreeItem reached from itm by child positions
RECURSIVE ItemAt(_, _)
ItemAt(itm, pos) == IF pos = <<>> THEN itm ELSE ItemAt(itm.children[Head(pos)], Tail(pos))

RECURSIVE ReplaceItemAt(_, _, _)
ReplaceItemAt(itm, pos, new) ==
    IF pos = <<>> THEN new
    ELSE [itm EXCEPT !.children[Head(pos)] =
              ReplaceItemAt(itm.children[Head(pos)], Tail(pos), new)]

\* TreeModel.get_from_uri: the position of the TreeItem at uri, or a ValueError
RECURSIVE ItemWalk(_, _, _)
ItemWalk(itm, path, pos) ==
    LET k == Head(path)
    IN  IF Len(path) = 1 /\ k = <<>> THEN [ok |-> TRUE, pos |-> pos]
        ELSE IF ~InSeq(k, ChildTags(itm)) THEN Raised
        ELSE LET i == IndexOf(k, ChildTags(itm))
             IN  IF Len(path) = 1 THEN [ok |-> TRUE, pos |-> Append(pos, i)]
                 ELSE ItemWalk(itm.children[i], Tail(path), Append(pos, i))

item_from_uri(tm, uri) == ItemWalk(tm.root_item, Split(uri), <<>>)

\* Workflow.build_tree over TreeModel.build_tree: what TreeItems are built from
RECURSIVE build_tree(_)
build_tree(x) ==
    IF x.tp = "op"
    THEN Dict(<<[k |-> inputs_tag, x |-> build_tree(x.inputs)],
                [k |-> outputs_tag, x |-> build_tree(x.outputs)]>>)
    ELSE IF x.tp = "dict"
    THEN Dict([i \in 1..Len(x.items) |-> [k |-> x.items[i].k, x |-> build_tree(x.items[i].x)]])
    ELSE IF x.tp = "list"
    THEN Dict([i \in 1..Len(x.xs) |-> [k |-> Str(i - 1), x |-> build_tree(x.xs[i])]])
    ELSE x

\* tree_update: parent_itm with the TreeItems for itm_tag and for the keys of itm_data
RECURSIVE tree_update(_, _, _)
RECURSIVE UpdateEach(_, _)
tree_update(parent_itm, itm_tag, itm_data) ==
    LET found == InSeq(itm_tag, ChildTags(parent_itm))
        itm_row == IF found THEN IndexOf(itm_tag, ChildTags(parent_itm))
                   ELSE Len(parent_itm.children) + 1
        itm == IF found THEN parent_itm.children[itm_row] ELSE create_tree_item(itm_tag)
        done == IF itm_data.tp = "dict" THEN UpdateEach(itm, itm_data.items) ELSE itm
    IN  IF found THEN [parent_itm EXCEPT !.children[itm_row] = done]
        ELSE [parent_itm EXCEPT !.children = Append(@, done)]

UpdateEach(itm, items) ==
    IF items = <<>> THEN itm
    ELSE UpdateEach(tree_update(itm, Head(items).k, Head(items).x), Tail(items))

\* build_to_uri: the root TreeItem with TreeItems built down to uri, and uri's position
RECURSIVE build_to_uri(_, _)

\* the TreeItems root_item with the position g found in them, or g's ValueError
Located(root_item, g) ==
    IF g.ok THEN [ok |-> TRUE, root_item |-> root_item, pos |-> g.pos]
    ELSE [ok |-> FALSE, root_item |-> root_item]

\* the parent TreeItem of uri: the root, the item at the parent URI when the tree
\* contains it, and else the item that build_to_uri builds there
ParentItem(tm, uri) ==
    IF ~HasDot(uri) THEN [ok |-> TRUE, root_item |-> tm.root_item, pos |-> <<>>]
    ELSE IF contains_uri(tm.tree, UpToLastDot(uri))
         THEN Located(tm.root_item, item_from_uri(tm, UpToLastDot(uri)))
         ELSE build_to_uri(tm, UpToLastDot(uri))

\* UpdatedUnder changed to build a new TreeItem for k every time: a child that has
\* this tag already is taken out and the new one is put at the end
UpdatedUnder_fresh(above, k, itm_data) ==
    ReplaceItemAt(above.root_item, above.pos,
        tree_update([ItemAt(above.root_item, above.pos) EXCEPT
                         !.children = SelectSeq(@, LAMBDA c : c.tag # k)],
                    k, itm_data))

\* the TreeItem for tag k, holding itm_data, put beneath the item at above.pos
UpdatedUnder(above, k, itm_data) ==
    ReplaceItemAt(above.root_item, above.pos,
                  tree_update(ItemAt(above.root_item, above.pos), k, itm_data))

BuiltUnder(above, uri, k) ==
    IF ~above.ok \/ k = <<>> THEN above
    ELSE Located(UpdatedUnder(above, k, EmptyDict),
                 ItemWalk(UpdatedUnder(above, k, EmptyDict), Split(uri), <<>>))

build_to_uri(tm, uri) == BuiltUnder(ParentItem(tm, uri), uri, Last(Split(uri)))

\* set_item: [ok, tm]; the TreeItems are updated before the data is stored
Stored(tm, r, items) == [ok |-> r.ok, tm |-> [tm EXCEPT !.tree = r.t, !.root_item = items]]

SetItemUnder(tm, above, itm_uri, itm_data) ==
    IF ~above.ok THEN [ok |-> FALSE, tm |-> [tm EXCEPT !.root_item = above.root_item]]
    ELSE Stored(tm, set_uri(tm.tree, itm_uri, itm_data),
                    UpdatedUnder(above, Last(Split(itm_uri)), build_tree(itm_data)))

set_item(tm, itm_uri, itm_data) ==
    SetItemUnder(tm, ParentItem(tm, itm_uri), itm_uri, itm_data)

\* WithoutChild changed to pop the last row whatever rm_row is
WithoutChild_last(parent_itm, rm_row) ==
    [parent_itm EXCEPT !.children = SubSeq(@, 1, Len(@) - 1)]

\* remove_item: delete the data, then take the TreeItem out of its parent's children
\* parent_itm.children.pop(rm_row)
WithoutChild(parent_itm, rm_row) ==
    [parent_itm EXCEPT !.children = SubSeq(@, 1, rm_row - 1) \o SubSeq(@, rm_row + 1, Len(@))]

\* remove_item once the TreeItem is found at g.pos and the data is deleted, giving r
Removed(tm, g, r) ==
    IF ~r.ok THEN [ok |-> FALSE, tm |-> tm]
    ELSE IF g.pos = <<>> THEN [ok |-> FALSE, tm |-> [tm EXCEPT !.tree = r.t]]
    ELSE LET ppos == SubSeq(g.pos, 1, Len(g.pos) - 1)
             parent_itm == ItemAt(tm.root_item, ppos)
             rm_row == IndexOf(ItemAt(tm.root_item, g.pos).tag, ChildTags(parent_itm))
         IN  [ok |-> TRUE,
              tm |-> [tm EXCEPT !.tree = r.t,
                                !.root_item = ReplaceItemAt(tm.root_item, ppos,
                                                            WithoutChild(parent_itm, rm_row))]]

RemoveAt(tm, itm_uri, g) ==
    Removed(tm, g, IF g.ok THEN delete_uri(tm.tree, itm_uri) ELSE [ok |-> FALSE, t |-> tm.tree])

remove_item(tm, itm_uri) == RemoveAt(tm, itm_uri, item_from_uri(tm, itm_uri))

root_tags(tm) == root_keys(tm.tree)

n_children(tm) == Len(tm.root_item.children)

-----------------------------------------------------------------------------
(* Operations and input locators *)

Text(s) == [tp |-> "str", s |-> s]

\* the kinds of input locator
basic_type == "basic"
workflow_item == "workflow_item"
runtime_type == "runtime"
valid_types == {basic_type, workflow_item, runtime_type}

InputLocator(tp, val) == [tp |-> tp, val |-> val]

\* The operation classes of the catalog: "Read" has no inputs and one output x,
\* "Double" has one input n, located in the workflow by default, and one output y.
OpNames == {"Read", "Double"}

input_names(cls) == IF cls = "Read" THEN <<>> ELSE << <<"n">> >>
output_names(cls) == IF cls = "Read" THEN << <<"x">> >> ELSE << <<"y">> >>
input_type(cls, name) == workflow_item

\* OrderedDict.fromkeys(names)
FromKeys(names) == Dict([i \in 1..Len(names) |-> [k |-> names[i], x |-> None]])

\* op = cls(); op.load_defaults()
NewOperation(cls) ==
    [tp |-> "op", cls |-> cls,
     inputs |-> FromKeys(input_names(cls)),
     outputs |-> FromKeys(output_names(cls)),
     input_locator |-> [i \in 1..Len(input_names(cls)) |->
                           [k |-> input_names(cls)[i],
                            il |-> InputLocator(input_type(cls, input_names(cls)[i]), None)]]]

-----------------------------------------------------------------------------
(* Workflow *)

\* Workflow.__init__: a TreeModel with no workflow inputs and outputs connected
NewWorkflow == [tree |-> NewTreeModel.tree, root_item |-> NewTreeModel.root_item,
                inputs |-> <<>>, outputs |-> <<>>]

list_op_tags(w) == root_tags(w)

n_ops(w) == n_children(w)

get_data_from_uri(w, uri) == get_from_uri(w.tree, uri)

add_op(w, op_tag, op) == set_item(w, op_tag, op)

set_op_item(w, op_tag, item_uri, item_data) ==
    set_item(w, op_tag \o <<Dot>> \o item_uri, item_data)

\* WithEnabled changed to set the flag of every operation of the workflow
WithEnabled_all(w, g, flag) ==
    IF ~g.ok THEN [ok |-> FALSE, tm |-> w]
    ELSE [ok |-> TRUE,
          tm |-> [w EXCEPT !.root_item.children =
                     [i \in 1..Len(@) |-> [@[i] EXCEPT !.flags.enable = flag]]]]

\* op_item.flags['enable'] = flag, on the TreeItem found at g.pos
WithEnabled(w, g, flag) ==
    IF ~g.ok THEN [ok |-> FALSE, tm |-> w]
    ELSE [ok |-> TRUE,
          tm |-> [w EXCEPT !.root_item =
                     ReplaceItemAt(@, g.pos, [ItemAt(@, g.pos) EXCEPT !.flags.enable = flag])]]

set_op_enabled(w, opname, flag) == WithEnabled(w, item_from_uri(w, opname), flag)

\* is_op_enabled changed to ignore the flag
is_op_enabled_always(w, opname) == TRUE

is_op_enabled(w, opname) == ItemAt(w.root_item, item_from_uri(w, opname).pos).flags.enable

RECURSIVE stack_size(_)
stack_size(stk) == IF stk = <<>> THEN 0 ELSE Len(Head(stk)) + stack_size(Tail(stk))

stack_contains(itm, stk) == \E i \in 1..Len(stk) : InSeq(itm, stk[i])

InputUri(op_tag, name) == op_tag \o <<Dot>> \o inputs_tag \o <<Dot>> \o name
OutputUri(op_tag, name) == op_tag \o <<Dot>> \o outputs_tag \o <<Dot>> \o name

\* InValid changed to accept every reference
InValid_always(val, valid_wf_inputs) == TRUE

\* il.val in valid_wf_inputs: a list of URIs is never an element of a list of strings
InValid(val, valid_wf_inputs) == val.tp = "str" /\ InSeq(val.s, valid_wf_inputs)

\* the message is '' for an input that is ready; otherwise it is built from the
\* input's name, the locator's value and the list of valid workflow inputs
InputMessage(name, il, valid_wf_inputs) ==
    IF il.tp = workflow_item /\ ~InValid(il.val, valid_wf_inputs)
    THEN [text |-> "not found in valid Workflow input list",
          name |-> name, val |-> il.val, valid |-> valid_wf_inputs]
    ELSE [text |-> ""]

\* is_op_ready: whether every input is ready, and a message per input URI
\* the loop of is_op_ready over the input locators ils of the operation
InputsReady(op_tag, ils, valid_wf_inputs) ==
    [rdy |-> \A i \in 1..Len(ils) : InputMessage(ils[i].k, ils[i].il, valid_wf_inputs).text = "",
     diag |-> [u \in {InputUri(op_tag, ils[i].k) : i \in 1..Len(ils)} |->
                  LET i == CHOOSE i \in 1..Len(ils) : InputUri(op_tag, ils[i].k) = u
                  IN  InputMessage(ils[i].k, ils[i].il, valid_wf_inputs)]]

is_op_ready(op_tag, w, valid_wf_inputs) ==
    InputsReady(op_tag, get_data_from_uri(w, op_tag).v.input_locator, valid_wf_inputs)

\* get_valid_wf_inputs changed to leave out the URIs of the outputs
get_valid_wf_inputs_no_outputs(op_tag, op) ==
    <<op_tag, op_tag \o <<Dot>> \o inputs_tag, op_tag \o <<Dot>> \o outputs_tag>>
    \o [i \in 1..Len(Keys(op.inputs)) |-> InputUri(op_tag, Keys(op.inputs)[i])]

get_valid_wf_inputs(op_tag, op) ==
    <<op_tag, op_tag \o <<Dot>> \o inputs_tag, op_tag \o <<Dot>> \o outputs_tag>>
    \o [i \in 1..Len(Keys(op.outputs)) |-> OutputUri(op_tag, Keys(op.outputs)[i])]
    \o [i \in 1..Len(Keys(op.inputs)) |-> InputUri(op_tag, Keys(op.inputs)[i])]

\* one pass of the for loop over list_op_tags(): the tags found ready, in order, and
\* the diagnostics updated with those of every enabled operation not yet in the stack
RECURSIVE StackPass(_, _, _, _, _, _)

\* PassOn changed to make the URIs of a ready operation valid within the same pass
PassOn_eager(w, tags, stk, valid_wf_inputs, ops_rdy, diagnostics, op_tag, r) ==
    StackPass(w, tags, stk,
              IF r.rdy
              THEN valid_wf_inputs \o get_valid_wf_inputs(op_tag, get_data_from_uri(w, op_tag).v)
              ELSE valid_wf_inputs,
              IF r.rdy THEN Append(ops_rdy, op_tag) ELSE ops_rdy,
              r.diag @@ diagnostics)

\* the rest of the pass once is_op_ready has answered r for op_tag
PassOn(w, tags, stk, valid_wf_inputs, ops_rdy, diagnostics, op_tag, r) ==
    StackPass(w, tags, stk, valid_wf_inputs,
              IF r.rdy THEN Append(ops_rdy, op_tag) ELSE ops_rdy,
              r.diag @@ diagnostics)

StackPass(w, tags, stk, valid_wf_inputs, ops_rdy, diagnostics) ==
    IF tags = <<>> THEN [ops_rdy |-> ops_rdy, diagnostics |-> diagnostics]
    ELSE IF ~is_op_enabled(w, Head(tags)) \/ stack_contains(Head(tags), stk)
         THEN StackPass(w, Tail(tags), stk, valid_wf_inputs, ops_rdy, diagnostics)
         ELSE PassOn(w, Tail(tags), stk, valid_wf_inputs, ops_rdy, diagnostics,
                     Head(tags), is_op_ready(Head(tags), w, valid_wf_inputs))

RECURSIVE ValidOf(_, _)
ValidOf(w, ops_rdy) ==
    IF ops_rdy = <<>> THEN <<>>
    ELSE get_valid_wf_inputs(Head(ops_rdy), get_data_from_uri(w, Head(ops_rdy)).v)
         \o ValidOf(w, Tail(ops_rdy))

\* the while loop of execution_stack
RECURSIVE StackLoop(_, _, _, _)

\* the end of one turn of the while loop, pass being what the for loop found
AfterPass(w, stk, valid_wf_inputs, pass) ==
    IF AnyOf(pass.ops_rdy)
    THEN StackLoop(w, Append(stk, pass.ops_rdy),
                   valid_wf_inputs \o ValidOf(w, pass.ops_rdy), pass.diagnostics)
    ELSE [stk |-> stk, diagnostics |-> pass.diagnostics]

StackLoop(w, stk, valid_wf_inputs, diagnostics) ==
    IF stack_size(stk) = n_ops(w) THEN [stk |-> stk, diagnostics |-> diagnostics]
    ELSE AfterPass(w, stk, valid_wf_inputs,
                   StackPass(w, list_op_tags(w), stk, valid_wf_inputs, <<>>, diagnostics))

EmptyDiagnostics == [u \in {} |-> [text |-> ""]]

execution_stack(w) == StackLoop(w, <<>>, <<>>, EmptyDiagnostics)

-----------------------------------------------------------------------------
(* PawsAPI, on its current workflow *)

\* what the caller sees of a call on the workflow: the workflow, and the KeyError if any
Outcome(r) == [err |-> IF r.ok THEN "" ELSE "KeyError", tm |-> r.tm]

\* api_add_op changed to add the operation before it looks at the activation flag
api_add_op_unchecked(w, om, op_tag, op_spec) ==
    IF om[op_spec] THEN Outcome(add_op(w, op_tag, NewOperation(op_spec)))
    ELSE [err |-> "OperationDisabledError", tm |-> add_op(w, op_tag, NewOperation(op_spec)).tm]

\* PawsAPI.add_op: only an activated operation is instantiated and added
api_add_op(w, om, op_tag, op_spec) ==
    IF om[op_spec] THEN Outcome(add_op(w, op_tag, NewOperation(op_spec)))
    ELSE [err |-> "OperationDisabledError", tm |-> w]

\* op.input_locator[input_name] = il, on the Operation stored at opname
WithLocator(w, opname, op, input_name, il) ==
    LET i == IndexOf(input_name, [j \in 1..Len(op.input_locator) |-> op.input_locator[j].k])
    IN  [w EXCEPT !.tree.root =
            Replace(@, <<KeyStep(opname)>>, [op EXCEPT !.input_locator[i].il = il])]

\* PawsAPI.set_input, with the locator kind given (tp = "default": the operation's own)
\* the end of set_input: a basic input is also stored in the operation's inputs
InputStored(located, opname, input_name, val, kind) ==
    IF kind = basic_type
    THEN Outcome(set_op_item(located, opname, inputs_tag \o <<Dot>> \o input_name, val))
    ELSE [err |-> "", tm |-> located]

\* SetInputOf changed to keep the value given in a locator of the runtime kind
SetInputOf_keeps_val(w, g, opname, input_name, val, tp) ==
    IF ~g.ok \/ g.v.tp # "op" THEN [err |-> "KeyError", tm |-> w]
    ELSE IF ~InSeq(input_name, Keys(g.v.inputs)) THEN [err |-> "KeyError", tm |-> w]
    ELSE LET kind == IF tp = "default" THEN input_type(g.v.cls, input_name) ELSE tp
         IN  IF kind \notin valid_types THEN [err |-> "ValueError", tm |-> w]
             ELSE InputStored(WithLocator(w, opname, g.v, input_name, InputLocator(kind, val)),
                              opname, input_name, val, kind)

\* set_input on the item g that get_op found at opname
SetInputOf(w, g, opname, input_name, val, tp) ==
    IF ~g.ok \/ g.v.tp # "op" THEN [err |-> "KeyError", tm |-> w]
    ELSE IF ~InSeq(input_name, Keys(g.v.inputs)) THEN [err |-> "KeyError", tm |-> w]
    ELSE LET kind == IF tp = "default" THEN input_type(g.v.cls, input_name) ELSE tp
             il == IF kind = runtime_type THEN InputLocator(kind, None)
                   ELSE InputLocator(kind, val)
         IN  IF kind \notin valid_types THEN [err |-> "ValueError", tm |-> w]
             ELSE InputStored(WithLocator(w, opname, g.v, input_name, il),
                              opname, input_name, val, kind)

api_set_input(w, opname, input_name, val, tp) ==
    SetInputOf(w, get_data_from_uri(w, opname), opname, input_name, val, tp)

\* Workflow.execute: the stack is built, then the log line reads os.linesep; the module
\* never imports os, so the call ends there with a NameError and no operation is run
execute(w) == [err |-> "NameError", tm |-> w, ran |-> <<>>, stk |-> execution_stack(w).stk]

-----------------------------------------------------------------------------
(* Calls on a Workflow through the API *)

WfTags == { <<"A">>, <<"B">> }

WfInputNames == { <<"n">> }

\* the values an input is set to: references to outputs, one of them as a list of
\* one URI, and a literal
WfRefs == { Text(OutputUri(<<"A">>, <<"x">>)), Text(OutputUri(<<"A">>, <<"y">>)),
            Text(OutputUri(<<"B">>, <<"y">>)), List(<<Text(OutputUri(<<"A">>, <<"x">>))>>) }

ActivateOp(op_uri) ==
    /\ ncalls < MaxWfCalls
    /\ ~opman[op_uri]
    /\ opman' = [opman EXCEPT ![op_uri] = TRUE]
    /\ ret' = [op |-> "activate_op"]
    /\ ncalls' = ncalls + 1
    /\ UNCHANGED <<wf_threads, finished, pc, paw, dt, stored, wf>>

AddOp(op_tag, op_spec) ==
    LET r == api_add_op(wf, opman, op_tag, op_spec)
    IN  /\ ncalls < MaxWfCalls
        /\ wf' = r.tm
        /\ ret' = [op |-> "add_op", op_tag |-> op_tag, op_spec |-> op_spec,
                   err |-> r.err, before |-> wf]
        /\ ncalls' = ncalls + 1
        /\ UNCHANGED <<wf_threads, finished, pc, paw, dt, stored, opman>>

RemoveOp(op_tag) ==
    LET r == remove_item(wf, op_tag)
    IN  /\ ncalls < MaxWfCalls
        /\ wf' = r.tm
        /\ ret' = [op |-> "remove_op", op_tag |-> op_tag,
                   err |-> IF r.ok THEN "" ELSE "KeyError", before |-> wf]
        /\ ncalls' = ncalls + 1
        /\ UNCHANGED <<wf_threads, finished, pc, paw, dt, stored, opman>>

\* PawsAPI.disable_op and enable_op
SetOpEnabled(op_tag, flag) ==
    LET r == set_op_enabled(wf, op_tag, flag)
    IN  /\ ncalls < MaxWfCalls
        /\ wf' = r.tm
        /\ ret' = [op |-> "set_op_enabled", op_tag |-> op_tag, flag |-> flag,
                   err |-> IF r.ok THEN "" ELSE "ValueError", before |-> wf]
        /\ ncalls' = ncalls + 1
        /\ UNCHANGED <<wf_threads, finished, pc, paw, dt, stored, opman>>

SetInput(opname, input_name, val, tp) ==
    LET r == api_set_input(wf, opname, input_name, val, tp)
    IN  /\ ncalls < MaxWfCalls
        /\ wf' = r.tm
        /\ ret' = [op |-> "set_input", err |-> r.err]
        /\ ncalls' = ncalls + 1
        /\ UNCHANGED <<wf_threads, finished, pc, paw, dt, stored, opman>>

BuildPlan ==
    LET r == execution_stack(wf)
    IN  /\ ret' = [op |-> "execution_stack", stk |-> r.stk, diagnostics |-> r.diagnostics]
        /\ UNCHANGED <<wf_threads, finished, pc, paw, dt, stored, wf, opman, ncalls>>

Execute ==
    LET r == execute(wf)
    IN  /\ wf' = r.tm
        /\ ret' = [op |-> "execute", err |-> r.err, ran |-> r.ran, stk |-> r.stk,
                   before |-> wf]
        /\ UNCHANGED <<wf_threads, finished, pc, paw, dt, stored, opman, ncalls>>

-----------------------------------------------------------------------------
(* WfManager and PawsAPI: the named Workflows *)

\* self.workflows, in the order the names were added.  A Workflow object is known by
\* obj, the rank of its creation: two objects with equal contents are different objects.
NewWfManager == [workflows |-> <<>>, nobj |-> 0]

NewPawsAPI == [wfman |-> NewWfManager, current_wf_name |-> None]

\* self.workflows.keys()
wf_names(wm) == [i \in 1..Len(wm.workflows) |-> wm.workflows[i].k]

\* the loop of auto_name: wfname is tried, then prefix_1, prefix_2, ...
RECURSIVE AutoNameLoop(_, _, _, _)
AutoNameLoop(names, prefix, wfname, idx) ==
    IF ~InSeq(wfname, names) THEN wfname
    ELSE AutoNameLoop(names, prefix, prefix \o <<"_">> \o Str(idx), idx + 1)

auto_name(wm, wfname) == AutoNameLoop(wf_names(wm), wfname, wfname, 1)

\* self.workflows[wfname] = wf: the value at an existing key is replaced in place
WithWorkflow(wm, wfname, wfobj) ==
    IF InSeq(wfname, wf_names(wm))
    THEN [wm EXCEPT !.workflows[IndexOf(wfname, wf_names(wm))] = wfobj]
    ELSE [wm EXCEPT !.workflows = Append(@, wfobj)]

\* add_wf changed to store the new Workflow under the name that auto_name gives
add_wf_auto_named(wm, wfname) ==
    [WithWorkflow(wm, auto_name(wm, wfname),
                  [k |-> auto_name(wm, wfname), obj |-> wm.nobj + 1, x |-> NewWorkflow])
     EXCEPT !.nobj = wm.nobj + 1]

\* WfManager.add_wf: a new Workflow is stored at wfname, whatever was there
add_wf(wm, wfname) ==
    [WithWorkflow(wm, wfname, [k |-> wfname, obj |-> wm.nobj + 1, x |-> NewWorkflow])
     EXCEPT !.nobj = wm.nobj + 1]

\* PawsAPI.select_wf
select_wf(p, wfname) ==
    IF InSeq(wfname, wf_names(p.wfman)) THEN [err |-> "", paw |-> [p EXCEPT !.current_wf_name = Text(wfname)]]
    ELSE [err |-> "ValueError", paw |-> p]

\* PawsAPI.add_wf: the first workflow added becomes the current one
api_add_wf(p, wfname) ==
    IF p.current_wf_name = None \/ p.current_wf_name = Text(<<>>)
    THEN select_wf([p EXCEPT !.wfman = add_wf(p.wfman, wfname)], wfname)
    ELSE [err |-> "", paw |-> [p EXCEPT !.wfman = add_wf(p.wfman, wfname)]]

\* PawsAPI.get_wf(wfname): self._wf_manager.workflows[wfname]
get_wf(p, wfname) ==
    IF InSeq(wfname, wf_names(p.wfman))
    THEN [ok |-> TRUE, v |-> p.wfman.workflows[IndexOf(wfname, wf_names(p.wfman))].x]
    ELSE Raised

\* WithWf changed as if every Workflow kept its items in one store shared by all
WithWf_shared(p, wfname, w) ==
    [p EXCEPT !.wfman.workflows = [i \in 1..Len(@) |-> [@[i] EXCEPT !.x = w]]]

\* the PawsAPI after a call that mutated the Workflow object found at wfname
WithWf(p, wfname, w) ==
    [p EXCEPT !.wfman.workflows[IndexOf(wfname, wf_names(p.wfman))].x = w]

-----------------------------------------------------------------------------
(* PawsAPI: saving the state to a specification and loading it *)

\* pawstools.version, the version of the running engine
version == <<"1", ".", "1", ".", "0">>

\* ops.op_keys: the names of the operations of the catalog
op_keys == <<"Read", "Double">>

AllDigits(s) == s # <<>> /\ \A i \in 1..Len(s) : IsDigit(s[i])

RECURSIVE LeadingDigits(_)
LeadingDigits(s) ==
    IF s = <<>> \/ ~IsDigit(Head(s)) THEN <<>> ELSE <<Head(s)>> \o LeadingDigits(Tail(s))

\* re.match(r'(\d+)\.(\d+)\.(\d+)', v), then list(map(int, groups())): the three
\* numbers v starts with, or the AttributeError of None.groups()
VersionParts(v) ==
    IF /\ Len(Split(v)) >= 3
       /\ AllDigits(Split(v)[1]) /\ AllDigits(Split(v)[2])
       /\ LeadingDigits(Split(v)[3]) # <<>>
    THEN [ok |-> TRUE,
          parts |-> <<Decimal(Split(v)[1]), Decimal(Split(v)[2]),
                      Decimal(LeadingDigits(Split(v)[3]))>>]
    ELSE Raised

\* the test that guards the warning of load_from_wfl
IsBehind(wfl_vparts, current_vparts) ==
    wfl_vparts[1] < current_vparts[1] \/ wfl_vparts[2] < current_vparts[2]

\* op.input_locator[name]
LocatorOf(op, name) ==
    op.input_locator[IndexOf(name, [j \in 1..Len(op.input_locator) |-> op.input_locator[j].k])].il

\* WfManager.op_dict: the type name of an Operation and, per input, its locator
op_dict(op) ==
    [type |-> op.cls,
     inputs |-> [i \in 1..Len(Keys(op.inputs)) |->
                    [k |-> Keys(op.inputs)[i],
                     tp |-> LocatorOf(op, Keys(op.inputs)[i]).tp,
                     val |-> LocatorOf(op, Keys(op.inputs)[i]).val]]]

\* Workflow.wf_setup_dict: the setup of every operation, by tag
wf_setup_dict(w) ==
    [i \in 1..Len(list_op_tags(w)) |->
        [k |-> list_op_tags(w)[i], x |-> op_dict(get_data_from_uri(w, list_op_tags(w)[i]).v)]]

\* wfl_dict changed to write a true flag for every operation of the catalog
wfl_dict_all_flags(p, om) ==
    [OP_ACTIVATION_FLAGS |-> [i \in 1..Len(op_keys) |-> [k |-> op_keys[i], x |-> TRUE]],
     PAWS_VERSION |-> Text(version),
     WORKFLOWS |-> [i \in 1..Len(p.wfman.workflows) |->
                      [k |-> p.wfman.workflows[i].k, x |-> wf_setup_dict(p.wfman.workflows[i].x)]],
     PLUGINS |-> <<>>]

\* PawsAPI.wfl_dict: the activated operations, the version, the setup of every workflow
wfl_dict(p, om) ==
    [OP_ACTIVATION_FLAGS |-> SelectSeq([i \in 1..Len(op_keys) |-> [k |-> op_keys[i], x |-> TRUE]],
                                       LAMBDA e : om[e.k]),
     PAWS_VERSION |-> Text(version),
     WORKFLOWS |-> [i \in 1..Len(p.wfman.workflows) |->
                      [k |-> p.wfman.workflows[i].k, x |-> wf_setup_dict(p.wfman.workflows[i].x)]],
     PLUGINS |-> <<>>]

\* opman.get_op_byname(opname) is not None
get_op_byname(opname) == opname \in OpNames

\* the Operation that load_from_dict builds from op_spec: the defaults, then the saved
\* locator of every input that op_spec names, the input itself dereferenced
LoadedOp(op_spec) ==
    LET op == NewOperation(op_spec.type)
        saved == [j \in 1..Len(op_spec.inputs) |-> op_spec.inputs[j].k]
    IN  [op EXCEPT
            !.input_locator =
                [i \in 1..Len(@) |->
                    IF InSeq(@[i].k, saved)
                    THEN [k |-> @[i].k,
                          il |-> InputLocator(op_spec.inputs[IndexOf(@[i].k, saved)].tp,
                                              op_spec.inputs[IndexOf(@[i].k, saved)].val)]
                    ELSE @[i]]]

\* the loop of load_from_dict over opdict.items(), on the new Workflow
RECURSIVE LoadOps(_, _)

LoadNextOp(r, rest) == IF ~r.ok THEN r ELSE LoadOps(r.tm, rest)

LoadOps(w, opdict) ==
    IF opdict = <<>> THEN [ok |-> TRUE, tm |-> w]
    ELSE IF ~get_op_byname(Head(opdict).x.type) THEN LoadOps(w, Tail(opdict))
    ELSE LoadNextOp(add_op(w, Head(opdict).k, LoadedOp(Head(opdict).x)), Tail(opdict))

\* the Workflow object that add_wf stored at wfname, after the operations were added to it
WithLoaded(wm, wfname, r) ==
    [ok |-> r.ok,
     wm |-> [wm EXCEPT !.workflows[IndexOf(wfname, wf_names(wm))].x = r.tm]]

\* WfManager.load_from_dict
load_from_dict(wm, wfname, opdict) ==
    WithLoaded(add_wf(wm, wfname), wfname, LoadOps(NewWorkflow, opdict))

\* the loop of load_from_wfl over OP_ACTIVATION_FLAGS: a true flag activates the
\* operation, a false one calls deactivate_op, which PawsAPI does not define
RECURSIVE LoadFlags(_, _)
LoadFlags(om, flags) ==
    IF flags = <<>> THEN [ok |-> TRUE, opman |-> om]
    ELSE IF ~InSeq(Head(flags).k, op_keys) THEN LoadFlags(om, Tail(flags))
    ELSE IF Head(flags).x THEN LoadFlags([om EXCEPT ![Head(flags).k] = TRUE], Tail(flags))
    ELSE [ok |-> FALSE, opman |-> om]

\* the loop of load_from_wfl over WORKFLOWS: load_from_dict, then select_wf
RECURSIVE LoadWorkflows(_, _)

LoadNextWf(p, r, wfname, rest) ==
    IF ~r.ok THEN [err |-> "KeyError", paw |-> [p EXCEPT !.wfman = r.wm]]
    ELSE LoadWorkflows(select_wf([p EXCEPT !.wfman = r.wm], wfname).paw, rest)

LoadWorkflows(p, wf_dict) ==
    IF wf_dict = <<>> THEN [err |-> "", paw |-> p]
    ELSE LoadNextWf(p, load_from_dict(p.wfman, Head(wf_dict).k, Head(wf_dict).x),
                    Head(wf_dict).k, Tail(wf_dict))

\* load_from_wfl once the version test has passed
LoadState(flags, r, d, log) ==
    IF ~flags.ok
    THEN [err |-> "AttributeError", paw |-> r.paw, opman |-> flags.opman, log |-> log]
    ELSE [err |-> r.err, paw |-> r.paw, opman |-> flags.opman, log |-> log]

\* the version written in d; '0.0.0' when d has none
WflVersion(d) ==
    IF d.PAWS_VERSION = None THEN <<"0", ".", "0", ".", "0">> ELSE d.PAWS_VERSION.s

\* PawsAPI.load_from_wfl, d being what yaml.load read.  When the version is behind, the
\* warning is logged and the next statement reads msg, a name that is never assigned
load_from_wfl(p, om, d) ==
    IF ~VersionParts(WflVersion(d)).ok \/ ~VersionParts(version).ok
    THEN [err |-> "AttributeError", paw |-> p, opman |-> om, log |-> <<>>]
    ELSE IF IsBehind(VersionParts(WflVersion(d)).parts, VersionParts(version).parts)
    THEN [err |-> "NameError", paw |-> p, opman |-> om, log |-> <<"WARNING">>]
    ELSE LoadState(LoadFlags(om, d.OP_ACTIVATION_FLAGS),
                   IF LoadFlags(om, d.OP_ACTIVATION_FLAGS).ok
                   THEN LoadWorkflows(p, d.WORKFLOWS) ELSE [err |-> "", paw |-> p],
                   d, <<>>)

-----------------------------------------------------------------------------
(* Workflow: the inputs and outputs connected to the outside *)

\* d[k] = x on an OrderedDict of connections
Connected(d, k, x) ==
    IF InSeq(k, [i \in 1..Len(d) |-> d[i].k])
    THEN [d EXCEPT ![IndexOf(k, [i \in 1..Len(d) |-> d[i].k])].x = x]
    ELSE Append(d, [k |-> k, x |-> x])

\* what is connected is kept as given: the text of one URI, or a list of them
connect_wf_input(w, wf_input_name, op_input_uri) ==
    [w EXCEPT !.inputs = Connected(@, wf_input_name, op_input_uri)]

connect_wf_output(w, wf_output_name, op_output_uri) ==
    [w EXCEPT !.outputs = Connected(@, wf_output_name, op_output_uri)]

\* op.input_locator[inpname].val = val, on what get_data_from_uri found at opname
LocatorValSet(w, g, opname, inpname, val) ==
    IF ~g.ok THEN [err |-> "KeyError", tm |-> w]
    ELSE IF g.v.tp # "op" THEN [err |-> "AttributeError", tm |-> w]
    ELSE IF ~InSeq(inpname, [j \in 1..Len(g.v.input_locator) |-> g.v.input_locator[j].k])
    THEN [err |-> "KeyError", tm |-> w]
    ELSE [err |-> "",
          tm |-> WithLocator(w, opname, g.v, inpname,
                             [LocatorOf(g.v, inpname) EXCEPT !.val = val])]

\* uri.split('.') is an attribute of a str: a list of URIs has none
set_op_input_at_uri(w, uri, val) ==
    IF uri.tp # "str" THEN [err |-> "AttributeError", tm |-> w]
    ELSE IF Len(Split(uri.s)) < 3 THEN [err |-> "IndexError", tm |-> w]
    ELSE LocatorValSet(w, get_data_from_uri(w, Split(uri.s)[1]),
                       Split(uri.s)[1], Split(uri.s)[3], val)

set_wf_input(w, wf_input_name, val) ==
    IF ~InSeq(wf_input_name, [i \in 1..Len(w.inputs) |-> w.inputs[i].k])
    THEN [err |-> "KeyError", tm |-> w]
    ELSE set_op_input_at_uri(
             w, w.inputs[IndexOf(wf_input_name, [i \in 1..Len(w.inputs) |-> w.inputs[i].k])].x, val)

\* self.get_data_from_uri(self.outputs[wfoutnm]): get_from_uri splits the URI inside
\* its try, and what a list of URIs raises there leaves it as a KeyError
OutputData(w, x) == IF x.tp = "str" THEN get_data_from_uri(w, x.s) ELSE Raised

wf_outputs_dict(w) ==
    IF \E i \in 1..Len(w.outputs) : ~OutputData(w, w.outputs[i].x).ok
    THEN [err |-> "KeyError", v |-> <<>>]
    ELSE [err |-> "",
          v |-> [i \in 1..Len(w.outputs) |->
                    [k |-> w.outputs[i].k, x |-> OutputData(w, w.outputs[i].x).v]]]

-----------------------------------------------------------------------------
(* Calls on a PawsAPI that holds several Workflows *)

WfNames == { <<"w">>, <<"w", "_", "1">> }

\* the values an input is set to in a named workflow, with the kind of locator
ApiInputs == { [val |-> Text(OutputUri(<<"A">>, <<"x">>)), tp |-> workflow_item],
               [val |-> Leaf(1), tp |-> basic_type],
               [val |-> Leaf(1), tp |-> runtime_type] }

\* the versions found in the specification that is loaded; None: it holds no version
WflVersions == { Text(version), Text(<<"1", ".", "0", ".", "0">>),
                 Text(<<"2", ".", "0", ".", "0">>), None }

\* a call on the Workflow named wfname: the KeyError of get_wf, or what the call gives
OnWf(p, wfname, r) ==
    IF ~InSeq(wfname, wf_names(p.wfman)) THEN [err |-> "KeyError", paw |-> p]
    ELSE [err |-> r.err, paw |-> WithWf(p, wfname, r.tm)]

\* PawsAPI.add_op(op_tag, op_spec, wfname): the activation flag is tested first
AddOpIn(wfname, op_tag, op_spec) ==
    /\ ncalls < MaxApiCalls
    /\ paw' = IF ~opman[op_spec] THEN paw
              ELSE OnWf(paw, wfname,
                        IF get_wf(paw, wfname).ok
                        THEN api_add_op(get_wf(paw, wfname).v, opman, op_tag, op_spec)
                        ELSE [err |-> "KeyError"]).paw
    /\ ret' = [op |-> "add_op_in", wfname |-> wfname, op_tag |-> op_tag]
    /\ ncalls' = ncalls + 1
    /\ UNCHANGED <<wf_threads, finished, pc, dt, stored, wf, opman>>

\* PawsAPI.set_input(opname, input_name, val, tp, wfname)
SetInputIn(wfname, opname, input_name, val, tp) ==
    /\ ncalls < MaxApiCalls
    /\ paw' = OnWf(paw, wfname,
                   IF get_wf(paw, wfname).ok
                   THEN api_set_input(get_wf(paw, wfname).v, opname, input_name, val, tp)
                   ELSE [err |-> "KeyError"]).paw
    /\ ret' = [op |-> "set_input_in", wfname |-> wfname, opname |-> opname,
               input_name |-> input_name, val |-> val, tp |-> tp,
               err |-> OnWf(paw, wfname,
                            IF get_wf(paw, wfname).ok
                            THEN api_set_input(get_wf(paw, wfname).v, opname, input_name, val, tp)
                            ELSE [err |-> "KeyError"]).err]
    /\ ncalls' = ncalls + 1
    /\ UNCHANGED <<wf_threads, finished, pc, dt, stored, wf, opman>>

\* PawsAPI.add_wf(wfname)
AddWf(wfname) ==
    /\ ncalls < MaxApiCalls
    /\ paw' = api_add_wf(paw, wfname).paw
    /\ ret' = [op |-> "add_wf", wfname |-> wfname, before |-> paw.wfman]
    /\ ncalls' = ncalls + 1
    /\ UNCHANGED <<wf_threads, finished, pc, dt, stored, wf, opman>>

\* PawsAPI.remove_op(op_tag, wfname)
RemoveOpIn(wfname, op_tag) ==
    /\ ncalls < MaxApiCalls
    /\ paw' = OnWf(paw, wfname,
                   IF get_wf(paw, wfname).ok
                   THEN Outcome(remove_item(get_wf(paw, wfname).v, op_tag))
                   ELSE [err |-> "KeyError"]).paw
    /\ ret' = [op |-> "remove_op_in", wfname |-> wfname, op_tag |-> op_tag]
    /\ ncalls' = ncalls + 1
    /\ UNCHANGED <<wf_threads, finished, pc, dt, stored, wf, opman>>

\* PawsAPI.disable_op(op_tag, wfname) and enable_op(op_tag, wfname)
SetOpEnabledIn(wfname, op_tag, flag) ==
    /\ ncalls < MaxApiCalls
    /\ paw' = OnWf(paw, wfname,
                   IF get_wf(paw, wfname).ok
                   THEN Outcome(set_op_enabled(get_wf(paw, wfname).v, op_tag, flag))
                   ELSE [err |-> "KeyError"]).paw
    /\ ret' = [op |-> "set_op_enabled_in", wfname |-> wfname, op_tag |-> op_tag,
               flag |-> flag]
    /\ ncalls' = ncalls + 1
    /\ UNCHANGED <<wf_threads, finished, pc, dt, stored, wf, opman>>

\* Workflow.execute on the Workflow called wfname
ExecuteIn(wfname) ==
    /\ paw' = OnWf(paw, wfname,
                   IF get_wf(paw, wfname).ok
                   THEN [err |-> execute(get_wf(paw, wfname).v).err,
                         tm |-> execute(get_wf(paw, wfname).v).tm]
                   ELSE [err |-> "KeyError"]).paw
    /\ ret' = [op |-> "execute_in", wfname |-> wfname]
    /\ UNCHANGED <<wf_threads, finished, pc, dt, stored, wf, opman, ncalls>>

\* WfManager.auto_name(wfname)
AutoName(wfname) ==
    /\ ret' = [op |-> "auto_name", wfname |-> wfname, v |-> auto_name(paw.wfman, wfname)]
    /\ UNCHANGED <<wf_threads, finished, pc, dt, stored, wf, opman, paw, ncalls>>

\* the state is saved, the specification is given the version v, and a PawsAPI that
\* was just started loads it
Loaded(v, d, r) ==
    [op |-> "load_from_wfl", version |-> v, d |-> d,
     err |-> r.err, paw |-> r.paw, opman |-> r.opman, log |-> r.log]

LoadSaved(v) ==
    /\ ret' = Loaded(v, [wfl_dict(paw, opman) EXCEPT !.PAWS_VERSION = v],
                     load_from_wfl(NewPawsAPI, [n \in OpNames |-> FALSE],
                                   [wfl_dict(paw, opman) EXCEPT !.PAWS_VERSION = v]))
    /\ UNCHANGED <<wf_threads, finished, pc, dt, stored, wf, opman, paw, ncalls>>

-----------------------------------------------------------------------------
(* Calls on the inputs and outputs of a Workflow *)

PortNames == { <<"p">> }

\* what a port is connected to: one operation input, or a list of two
PortUris == { Text(InputUri(<<"A">>, <<"n">>)),
              List(<<Text(InputUri(<<"A">>, <<"n">>)), Text(InputUri(<<"B">>, <<"n">>))>>) }

PortVals == { Leaf(2) }

\* PawsAPI.add_wf_input
ConnectWfInput(wf_input_name, input_uris) ==
    /\ ncalls < MaxWfCalls
    /\ wf' = connect_wf_input(wf, wf_input_name, input_uris)
    /\ ret' = [op |-> "add_wf_input"]
    /\ ncalls' = ncalls + 1
    /\ UNCHANGED <<wf_threads, finished, pc, paw, dt, stored, opman>>

\* PawsAPI.add_wf_output
ConnectWfOutput(wf_output_name, output_uris) ==
    /\ ncalls < MaxWfCalls
    /\ wf' = connect_wf_output(wf, wf_output_name, output_uris)
    /\ ret' = [op |-> "add_wf_output"]
    /\ ncalls' = ncalls + 1
    /\ UNCHANGED <<wf_threads, finished, pc, paw, dt, stored, opman>>

\* PawsAPI.set_wf_input
SetWfInput(wf_input_name, val) ==
    /\ ncalls < MaxWfCalls
    /\ wf' = set_wf_input(wf, wf_input_name, val).tm
    /\ ret' = [op |-> "set_wf_input", name |-> wf_input_name, val |-> val,
               err |-> set_wf_input(wf, wf_input_name, val).err, before |-> wf]
    /\ ncalls' = ncalls + 1
    /\ UNCHANGED <<wf_threads, finished, pc, paw, dt, stored, opman>>

\* Workflow.wf_outputs_dict
WfOutputs ==
    /\ ret' = [op |-> "wf_outputs_dict", err |-> wf_outputs_dict(wf).err,
               v |-> wf_outputs_dict(wf).v]
    /\ UNCHANGED <<wf_threads, finished, pc, paw, dt, stored, wf, opman, ncalls>>

-----------------------------------------------------------------------------
(* Calls that reference every kind of URI of an operation *)

\* the URIs an input is set to: operation A itself, its inputs and outputs, each
\* input and output that A may have, and an output that no operation has
RefUris == { Text(<<"A">>),
             Text(<<"A", ".">> \o inputs_tag), Text(<<"A", ".">> \o outputs_tag),
             Text(InputUri(<<"A">>, <<"n">>)),
             Text(OutputUri(<<"A">>, <<"x">>)), Text(OutputUri(<<"A">>, <<"y">>)),
             Text(OutputUri(<<"A">>, <<"z">>)) }

-----------------------------------------------------------------------------
(* Calls on a DictTree of its own *)

\* The URIs and values the calls are made with.  "a_0" holds the text of "a"
\* without lying beneath it; "a." and "" end in an empty segment.
TreeUris ==
    { <<"a">>, <<"a", "_", "0">>,
      <<"a", ".", "a">>, <<"a", ".", "a", "_", "0">>, <<"a", ".", "0">>,
      <<"a", ".">>, <<>> }

TreeVals == { Leaf(1), EmptyDict, List(<<Leaf(1)>>) }

TreePrefixes == { <<"a">>, <<"a", ".", "a">> }

\* a URI as the data model has it: tags joined by '.', no tag empty
NoEmptyTag(uri) == \A i \in 1..Len(Split(uri)) : Split(uri)[i] # <<>>

\* a lies beneath b: b followed by '.' and further segments
Beneath(a, b) == Len(a) > Len(b) + 1 /\ SubSeq(a, 1, Len(b) + 1) = b \o <<Dot>>

TreeSet(uri, val) ==
    LET r == set_uri(dt, uri, val)
    IN  /\ ncalls < MaxTreeCalls
        /\ dt' = r.t
        /\ stored' = IF r.ok /\ Last(Split(uri)) # <<>> THEN stored \cup {uri} ELSE stored
        /\ ret' = [op |-> "set_uri", uri |-> uri, val |-> val, ok |-> r.ok, before |-> dt]
        /\ ncalls' = ncalls + 1
        /\ UNCHANGED <<wf_threads, finished, pc, paw, wf, opman>>

TreeDelete(uri) ==
    LET r == delete_uri(dt, uri)
    IN  /\ ncalls < MaxTreeCalls
        /\ dt' = r.t
        /\ stored' = IF r.ok /\ Last(Split(uri)) # <<>>
                     THEN {u \in stored : u # uri /\ ~Beneath(u, uri)}
                     ELSE stored
        /\ ret' = [op |-> "delete_uri", uri |-> uri, ok |-> r.ok, was |-> dt.all_uris,
                   before |-> dt]
        /\ ncalls' = ncalls + 1
        /\ UNCHANGED <<wf_threads, finished, pc, paw, wf, opman>>

TreeMakeUnique(prefix) ==
    /\ ncalls < MaxTreeCalls
    /\ ret' = [op |-> "make_unique_uri", prefix |-> prefix, v |-> make_unique_uri(dt, prefix)]
    /\ ncalls' = ncalls + 1
    /\ UNCHANGED <<wf_threads, finished, pc, paw, dt, stored, wf, opman>>

-----------------------------------------------------------------------------
(* Specifications *)

(* WfManager: the threads that run Workflows (wf_manager.py) *)

\* WfManager.__init__: self._n_wf_threads
n_wf_threads == 1

\* the thread objects that callers register
Threads == {1, 2, 3}

Thread(id) == [tp |-> "thread", id |-> id]

\* the test of wait_for_thread changed to take every thread for finished
IsDone_any(slots, fin, th_idx) == TRUE

\* wait_for_thread's test: done stays True when the slot holds None or a thread
\* whose isFinished() is true
IsDone(slots, fin, th_idx) ==
    slots[th_idx + 1] = None \/ slots[th_idx + 1].id \in fin

\* next_available_thread's loop: the indices whose slot holds no thread
FreeSlots(slots) == {idx \in 0..(Len(slots) - 1) : slots[idx + 1] = None}

\* Slots and signal handlers run in the main thread, between calls or while the
\* caller is inside processEvents() or loopwait().
InEventLoop == pc.at \in {"idle", "events"}

\* register_thread(th_idx, th); the thread is started, so it is not finished
RegisterThread(th_idx, th) ==
    /\ InEventLoop
    /\ wf_threads' = [wf_threads EXCEPT ![th_idx + 1] = Thread(th)]
    /\ finished' = finished \ {th}
    /\ ret' = [op |-> "register_thread", idx |-> th_idx]
    /\ UNCHANGED <<dt, stored, wf, opman, paw, ncalls, pc>>

\* the slot finish_thread(th_idx); the handlers run by its processEvents() are
\* steps taken before this one
FinishThread(th_idx) ==
    /\ InEventLoop
    /\ wf_threads[th_idx + 1] # None
    /\ wf_threads' = [wf_threads EXCEPT ![th_idx + 1] = None]
    /\ ret' = [op |-> "finish_thread", idx |-> th_idx]
    /\ UNCHANGED <<dt, stored, wf, opman, paw, ncalls, finished, pc>>

\* a registered thread comes to its end, at any time: isFinished() turns true
ThreadCompletes(th) ==
    /\ \E i \in 1..Len(wf_threads) : wf_threads[i] = Thread(th)
    /\ th \notin finished
    /\ finished' = finished \cup {th}
    /\ UNCHANGED <<dt, stored, wf, opman, paw, ncalls, ret, wf_threads, pc>>

\* wait_for_thread(th_idx) is called: processEvents(), then the loop.  The growing
\* interval of loopwait only sets how long the caller sleeps and is left out.
WaitForThread(th_idx) ==
    /\ pc.at = "idle"
    /\ pc' = [at |-> "events", idx |-> th_idx, fn |-> "wait_for_thread"]
    /\ UNCHANGED <<dt, stored, wf, opman, paw, ncalls, ret, wf_threads, finished>>

\* processEvents() or loopwait() returns and the loop tests the slot
EventsDone ==
    /\ pc.at = "events"
    /\ pc' = [pc EXCEPT !.at = "test"]
    /\ UNCHANGED <<dt, stored, wf, opman, paw, ncalls, ret, wf_threads, finished>>

\* one turn of the while loop: return when done, loopwait otherwise
WaitTest ==
    /\ pc.at = "test"
    /\ IF IsDone(wf_threads, finished, pc.idx)
       THEN /\ pc' = [at |-> "returned"]
            /\ ret' = [op |-> pc.fn, idx |-> pc.idx, waited |-> TRUE]
       ELSE /\ pc' = [pc EXCEPT !.at = "events"]
            /\ UNCHANGED ret
    /\ UNCHANGED <<dt, stored, wf, opman, paw, ncalls, wf_threads, finished>>

\* next_available_thread: the first index whose slot holds no thread, and else
\* index 0 once wait_for_thread(0) has returned
NextAvailableThread ==
    /\ pc.at = "idle"
    /\ IF FreeSlots(wf_threads) # {}
       THEN /\ pc' = [at |-> "returned"]
            /\ ret' = [op |-> "next_available_thread",
                       idx |-> CHOOSE idx \in FreeSlots(wf_threads) :
                                   \A j \in FreeSlots(wf_threads) : idx <= j,
                       waited |-> FALSE]
       ELSE /\ pc' = [at |-> "events", idx |-> 0, fn |-> "next_available_thread"]
            /\ UNCHANGED ret
    /\ UNCHANGED <<dt, stored, wf, opman, paw, ncalls, wf_threads, finished>>

\* the caller goes on with what was returned
Returned ==
    /\ pc.at = "returned"
    /\ pc' = [at |-> "idle"]
    /\ UNCHANGED <<dt, stored, wf, opman, paw, ncalls, ret, wf_threads, finished>>

-----------------------------------------------------------------------------
\* The item URIs and the data the TreeModel calls are made with: a mapping with two
\* keys, mappings with one key of them and with none, and a leaf.
ItemUris == { <<"A">>, <<"A", ".", "x">>, <<"A", ".", "y">>, <<"A", ".", "x", ".", "y">> }

ItemVals ==
    { Leaf(1), EmptyDict, Dict(<< [k |-> <<"x">>, x |-> Leaf(1)] >>),
      Dict(<< [k |-> <<"x">>, x |-> Leaf(1)], [k |-> <<"y">>, x |-> Leaf(2)] >>) }

\* TreeModel.set_item, called on the Workflow
SetItemAt(itm_uri, itm_data) ==
    LET r == set_item(wf, itm_uri, itm_data)
    IN  /\ ncalls < MaxItemCalls
        /\ wf' = r.tm
        /\ ret' = [op |-> "set_item", uri |-> itm_uri, data |-> itm_data,
                   err |-> IF r.ok THEN "" ELSE "KeyError", before |-> wf]
        /\ ncalls' = ncalls + 1
        /\ UNCHANGED <<wf_threads, finished, pc, paw, dt, stored, opman>>

Init ==
    /\ dt = NewDictTree
    /\ stored = {}
    /\ wf = NewWorkflow
    /\ opman = [n \in OpNames |-> FALSE]
    /\ paw = NewPawsAPI
    /\ ret = [op |-> "init"]
    /\ ncalls = 0
    /\ wf_threads = [i \in 1..n_wf_threads |-> None]
    /\ finished = {}
    /\ pc = [at |-> "idle"]

Next ==
    \/ \E op_uri \in OpNames : ActivateOp(op_uri)
    \/ \E op_tag \in WfTags, op_spec \in OpNames : AddOp(op_tag, op_spec)
    \/ \E op_tag \in WfTags : RemoveOp(op_tag)
    \/ \E op_tag \in WfTags, flag \in BOOLEAN : SetOpEnabled(op_tag, flag)
    \/ \E opname \in WfTags, input_name \in WfInputNames, val \in WfRefs :
           SetInput(opname, input_name, val, workflow_item)
    \/ \E opname \in WfTags, input_name \in WfInputNames :
           SetInput(opname, input_name, Leaf(1), basic_type)
    \/ BuildPlan
    \/ Execute

Spec == Init /\ [][Next]_vars

ApiNext ==
    \/ \E op_uri \in OpNames : ActivateOp(op_uri)
    \/ \E wfname \in WfNames : AddWf(wfname)
    \/ \E wfname \in WfNames : AutoName(wfname)
    \/ \E wfname \in WfNames, op_tag \in WfTags, op_spec \in OpNames :
           AddOpIn(wfname, op_tag, op_spec)
    \/ \E wfname \in WfNames, opname \in WfTags, input_name \in WfInputNames, i \in ApiInputs :
           SetInputIn(wfname, opname, input_name, i.val, i.tp)
    \/ \E v \in WflVersions : LoadSaved(v)

SpecApi == Init /\ [][ApiNext]_vars

PortsNext ==
    \/ \E op_uri \in OpNames : ActivateOp(op_uri)
    \/ \E op_tag \in WfTags, op_spec \in OpNames : AddOp(op_tag, op_spec)
    \/ \E opname \in WfTags, input_name \in WfInputNames :
           SetInput(opname, input_name, Leaf(1), basic_type)
    \/ \E wf_input_name \in PortNames, input_uris \in PortUris :
           ConnectWfInput(wf_input_name, input_uris)
    \/ \E wf_output_name \in PortNames, output_uris \in PortUris :
           ConnectWfOutput(wf_output_name, output_uris)
    \/ \E wf_input_name \in PortNames, val \in PortVals : SetWfInput(wf_input_name, val)
    \/ WfOutputs

SpecPorts == Init /\ [][PortsNext]_vars

RefsNext ==
    \/ \E op_uri \in OpNames : ActivateOp(op_uri)
    \/ \E op_tag \in WfTags, op_spec \in OpNames : AddOp(op_tag, op_spec)
    \/ \E op_tag \in WfTags : SetOpEnabled(op_tag, FALSE)
    \/ \E opname \in WfTags, input_name \in WfInputNames, val \in RefUris :
           SetInput(opname, input_name, val, workflow_item)
    \/ \E opname \in WfTags, input_name \in WfInputNames :
           SetInput(opname, input_name, Leaf(1), basic_type)
    \/ BuildPlan

SpecRefs == Init /\ [][RefsNext]_vars

TwoNext ==
    \/ \E op_uri \in OpNames : ActivateOp(op_uri)
    \/ \E wfname \in WfNames : AddWf(wfname)
    \/ \E wfname \in WfNames, op_tag \in WfTags, op_spec \in OpNames :
           AddOpIn(wfname, op_tag, op_spec)
    \/ \E wfname \in WfNames, op_tag \in WfTags : RemoveOpIn(wfname, op_tag)
    \/ \E wfname \in WfNames, op_tag \in WfTags, flag \in BOOLEAN :
           SetOpEnabledIn(wfname, op_tag, flag)
    \/ \E wfname \in WfNames : ExecuteIn(wfname)

SpecTwo == Init /\ [][TwoNext]_vars

TreeNext ==
    \/ \E uri \in TreeUris, val \in TreeVals : TreeSet(uri, val)
    \/ \E uri \in TreeUris : TreeDelete(uri)
    \/ \E prefix \in TreePrefixes : TreeMakeUnique(prefix)

SpecTree == Init /\ [][TreeNext]_vars

ItemsNext ==
    \/ \E op_uri \in OpNames : ncalls < MaxItemCalls /\ ActivateOp(op_uri)
    \/ \E op_tag \in WfTags, op_spec \in OpNames :
           ncalls < MaxItemCalls /\ AddOp(op_tag, op_spec)
    \/ \E itm_uri \in ItemUris, itm_data \in ItemVals : SetItemAt(itm_uri, itm_data)
    \/ \E itm_uri \in ItemUris : ncalls < MaxItemCalls /\ RemoveOp(itm_uri)
    \/ \E itm_uri \in ItemUris : ncalls < MaxItemCalls /\ SetOpEnabled(itm_uri, FALSE)

SpecItems == Init /\ [][ItemsNext]_vars

ThreadsNext ==
    \/ \E th_idx \in 0..(n_wf_threads - 1), th \in Threads : RegisterThread(th_idx, th)
    \/ \E th_idx \in 0..(n_wf_threads - 1) : FinishThread(th_idx)
    \/ \E th \in Threads : ThreadCompletes(th)
    \/ \E th_idx \in 0..(n_wf_threads - 1) : WaitForThread(th_idx)
    \/ EventsDone
    \/ WaitTest
    \/ NextAvailableThread
    \/ Returned

SpecThreads == Init /\ [][ThreadsNext]_vars

-----------------------------------------------------------------------------
(* Properties of the execution stack *)

OpAt(w, op_tag) == get_data_from_uri(w, op_tag).v

HasOp(w, op_tag) == InSeq(op_tag, list_op_tags(w))

\* the enable flag of the TreeItem with this tag among the root's children
EnableFlag(w, op_tag) ==
    \E i \in 1..Len(w.root_item.children) :
        w.root_item.children[i].tag = op_tag /\ w.root_item.children[i].flags.enable

\* the positions of op's inputs that are located in the workflow
WfItemInputs(op) == {i \in 1..Len(op.input_locator) : op.input_locator[i].il.tp = workflow_item}

\* op's input i references one of the output URIs of the operation at tag
RefersToOutputOf(w, op, i, tag) ==
    \E j \in 1..Len(Keys(OpAt(w, tag).outputs)) :
        op.input_locator[i].il.val = Text(OutputUri(tag, Keys(OpAt(w, tag).outputs)[j]))

\* the workflow holds exactly a and b, a has no workflow-item input and b's only
\* workflow-item input references an output of a
IsChain(w, a, b) ==
    /\ a # b /\ HasOp(w, a) /\ HasOp(w, b) /\ Len(list_op_tags(w)) = 2
    /\ WfItemInputs(OpAt(w, a)) = {}
    /\ Cardinality(WfItemInputs(OpAt(w, b))) = 1
    /\ \A i \in WfItemInputs(OpAt(w, b)) : RefersToOutputOf(w, OpAt(w, b), i, a)

\* a and b are enabled and each has a workflow-item input referencing an output of the other
IsCycle(w, a, b) ==
    /\ a # b /\ HasOp(w, a) /\ HasOp(w, b)
    /\ EnableFlag(w, a) /\ EnableFlag(w, b)
    /\ \E i \in WfItemInputs(OpAt(w, a)) : RefersToOutputOf(w, OpAt(w, a), i, b)
    /\ \E i \in WfItemInputs(OpAt(w, b)) : RefersToOutputOf(w, OpAt(w, b), i, a)

\* the diagnostics hold a non-empty reason for some input of the operation at tag
HasReasonFor(w, diagnostics, tag) ==
    \E i \in 1..Len(OpAt(w, tag).input_locator) :
        /\ InputUri(tag, OpAt(w, tag).input_locator[i].k) \in DOMAIN diagnostics
        /\ diagnostics[InputUri(tag, OpAt(w, tag).input_locator[i].k)].text # ""

\* C1: for a workflow of two enabled operations where b's only workflow-item input
\* references an output of a, and a has none, execution_stack returns exactly the
\* two stages [a] and [b].
C1_ChainGivesTwoStages ==
    ret.op = "execution_stack" =>
        \A a \in WfTags, b \in WfTags :
            (IsChain(wf, a, b) /\ EnableFlag(wf, a) /\ EnableFlag(wf, b))
                => ret.stk = << <<a>>, <<b>> >>

C1_Witness ==
    /\ ret.op = "execution_stack"
    /\ \E a \in WfTags, b \in WfTags :
           IsChain(wf, a, b) /\ EnableFlag(wf, a) /\ EnableFlag(wf, b)

\* C2: when two enabled operations reference each other's outputs, execution_stack
\* returns (it terminates), its stack holds neither of them, and its diagnostics
\* hold a non-empty reason for an input of each.
C2_CycleNotScheduled ==
    ret.op = "execution_stack" =>
        \A a \in WfTags, b \in WfTags :
            IsCycle(wf, a, b) =>
                /\ ~stack_contains(a, ret.stk) /\ ~stack_contains(b, ret.stk)
                /\ HasReasonFor(wf, ret.diagnostics, a)
                /\ HasReasonFor(wf, ret.diagnostics, b)

C2_Witness ==
    /\ ret.op = "execution_stack"
    /\ \E a \in WfTags, b \in WfTags : IsCycle(wf, a, b)

\* C3: in the chain a -> b with a disabled, execution_stack does not schedule b, and
\* the diagnostics hold, at the URI of b's input, a reason that names the URI of a's
\* output that the input references.
C3_DisabledUpstreamBlocks ==
    ret.op = "execution_stack" =>
        \A a \in WfTags, b \in WfTags :
            (IsChain(wf, a, b) /\ ~EnableFlag(wf, a) /\ EnableFlag(wf, b)) =>
                /\ ~stack_contains(b, ret.stk)
                /\ \A i \in WfItemInputs(OpAt(wf, b)) :
                       LET u == InputUri(b, OpAt(wf, b).input_locator[i].k)
                       IN  /\ u \in DOMAIN ret.diagnostics
                           /\ ret.diagnostics[u].text # ""
                           /\ ret.diagnostics[u].val = OpAt(wf, b).input_locator[i].il.val

C3_Witness ==
    /\ ret.op = "execution_stack"
    /\ \E a \in WfTags, b \in WfTags :
           IsChain(wf, a, b) /\ ~EnableFlag(wf, a) /\ EnableFlag(wf, b)

-----------------------------------------------------------------------------
(* Properties of execute *)

\* C4: after execute on the complete plan of the chain read -> double (read has no
\* inputs and produces x = 5, double's input n references read's x and it produces
\* y = 2n), double's input n holds the value stored at read's x, both in the
\* operation and in the tree, and the tree holds y = 10 at double's output.
C4_ExecuteRunsChain ==
    ret.op = "execute" =>
        \A a \in WfTags, b \in WfTags :
            ( /\ IsChain(wf, a, b) /\ EnableFlag(wf, a) /\ EnableFlag(wf, b)
              /\ OpAt(wf, a).cls = "Read" /\ OpAt(wf, b).cls = "Double"
              /\ stack_size(ret.stk) = n_ops(wf) ) =>
                /\ get_data_from_uri(wf, OutputUri(a, <<"x">>)).v = Leaf(5)
                /\ get_data_from_uri(wf, InputUri(b, <<"n">>)).v = Leaf(5)
                /\ Item(OpAt(wf, b).inputs, <<"n">>) = Leaf(5)
                /\ get_data_from_uri(wf, OutputUri(b, <<"y">>)).v = Leaf(10)

-----------------------------------------------------------------------------
(* Properties of the DictTree *)

\* C6: after set_uri(u, v) has succeeded for a URI u with no empty tag, whatever
\* calls came before, get_from_uri(u) returns v.
C6_GetAfterSet ==
    (ret.op = "set_uri" /\ ret.ok /\ NoEmptyTag(ret.uri)) =>
        /\ get_from_uri(dt, ret.uri).ok
        /\ get_from_uri(dt, ret.uri).v = ret.val

\* a set_uri below the root that succeeded on a key already present, after other calls
C6_Witness ==
    /\ ret.op = "set_uri" /\ ret.ok /\ NoEmptyTag(ret.uri) /\ HasDot(ret.uri)
    /\ ncalls = MaxTreeCalls
    /\ Len(dt.all_uris) < ncalls

\* C7: after delete_uri(u) has succeeded for a URI u with no empty tag, neither u
\* nor any URI that was registered beneath u is in all_uris, and get_from_uri(u)
\* raises.
C7_DeleteRemovesSubtree ==
    (ret.op = "delete_uri" /\ ret.ok /\ NoEmptyTag(ret.uri)) =>
        /\ ~contains_uri(dt, ret.uri)
        /\ \A i \in 1..Len(ret.was) :
               Beneath(ret.was[i], ret.uri) => ~contains_uri(dt, ret.was[i])
        /\ ~get_from_uri(dt, ret.uri).ok

\* a delete_uri that succeeded on a URI with a URI registered beneath it
C7_Witness ==
    /\ ret.op = "delete_uri" /\ ret.ok /\ NoEmptyTag(ret.uri)
    /\ \E i \in 1..Len(ret.was) : Beneath(ret.was[i], ret.uri)

\* C8: after any sequence of set_uri and delete_uri calls, get_from_uri succeeds on
\* every URI of all_uris.
C8_RegistryResolves ==
    \A i \in 1..Len(dt.all_uris) : get_from_uri(dt, dt.all_uris[i]).ok

\* C9: make_unique_uri(prefix) returns prefix_k for the least k >= 0 such that
\* prefix_k is not a stored URI, and so never a URI that is stored.
C9_UniqueUriIsFresh ==
    ret.op = "make_unique_uri" =>
        /\ ret.v \notin stored
        /\ \E k \in 0..Cardinality(stored) :
               /\ ret.v = ret.prefix \o <<"_">> \o Str(k)
               /\ \A j \in 0..(k - 1) : (ret.prefix \o <<"_">> \o Str(j)) \in stored

-----------------------------------------------------------------------------
(* Properties of the API *)

\* C10: add_op under an operation name that is not activated ends with the
\* OperationDisabledError, and leaves the workflow's operation tags, its tree and
\* its TreeItems as they were.
C10_AddDisabledOpFails ==
    (ret.op = "add_op" /\ ~opman[ret.op_spec]) =>
        /\ ret.err = "OperationDisabledError"
        /\ list_op_tags(wf) = list_op_tags(ret.before)
        /\ wf.tree = ret.before.tree
        /\ wf.root_item = ret.before.root_item

\* a refused add_op on a workflow that already holds an operation
C10_Witness ==
    /\ ret.op = "add_op" /\ ~opman[ret.op_spec]
    /\ n_ops(wf) > 0

-----------------------------------------------------------------------------
(* Properties of the named Workflows *)

\* the Workflow objects held by a workflow manager
ObjectsOf(wm) == {wm.workflows[i].obj : i \in 1..Len(wm.workflows)}

\* C11: add_wf(name), when a workflow called name already exists, does not replace
\* or alter it: every name that existed still maps to the same Workflow object, and the
\* new empty Workflow is stored under a generated name that was not in use.
C11_AddWfKeepsExisting ==
    (ret.op = "add_wf" /\ InSeq(ret.wfname, wf_names(ret.before))) =>
        /\ \A i \in 1..Len(ret.before.workflows) :
               \E j \in 1..Len(paw.wfman.workflows) :
                   /\ paw.wfman.workflows[j].k = ret.before.workflows[i].k
                   /\ paw.wfman.workflows[j].obj = ret.before.workflows[i].obj
        /\ \E j \in 1..Len(paw.wfman.workflows) :
               /\ ~InSeq(paw.wfman.workflows[j].k, wf_names(ret.before))
               /\ paw.wfman.workflows[j].obj \notin ObjectsOf(ret.before)
               /\ paw.wfman.workflows[j].x = NewWorkflow

\* C11 as amended: add_wf(name), when a workflow called name already exists, stores a
\* new empty Workflow object under that same name in place of the existing one; the
\* names and their order are unchanged and every other name maps to the same object
\* with the same contents as before.
C11_AddWfReplaces ==
    (ret.op = "add_wf" /\ InSeq(ret.wfname, wf_names(ret.before))) =>
        /\ wf_names(paw.wfman) = wf_names(ret.before)
        /\ \A i \in 1..Len(ret.before.workflows) :
               IF ret.before.workflows[i].k = ret.wfname
               THEN /\ paw.wfman.workflows[i].obj \notin ObjectsOf(ret.before)
                    /\ paw.wfman.workflows[i].x = NewWorkflow
               ELSE paw.wfman.workflows[i] = ret.before.workflows[i]

C11_Witness ==
    /\ ret.op = "add_wf"
    /\ Len(ret.before.workflows) = 2
    /\ \E i \in 1..2 : /\ ret.before.workflows[i].k = ret.wfname
                        /\ n_ops(ret.before.workflows[i].x) > 0

-----------------------------------------------------------------------------
(* Properties of saving and loading *)

\* the Operation stored at op_tag in the i-th workflow of a workflow manager
OpIn(wm, i, op_tag) == get_data_from_uri(wm.workflows[i].x, op_tag).v

\* the tags of the operations of a workflow, as a set
TagSet(w) == {list_op_tags(w)[i] : i \in 1..Len(list_op_tags(w))}

\* two workflow managers hold the same operations with the same locators, by name and tag
SameSetup(wm, loaded) ==
    /\ wf_names(loaded) = wf_names(wm)
    /\ \A i \in 1..Len(wm.workflows) :
           /\ list_op_tags(loaded.workflows[i].x) = list_op_tags(wm.workflows[i].x)
           /\ \A t \in TagSet(wm.workflows[i].x) :
                  /\ OpIn(loaded, i, t).cls = OpIn(wm, i, t).cls
                  /\ OpIn(loaded, i, t).input_locator = OpIn(wm, i, t).input_locator

C13_OlderVersionLoads ==
    (/\ ret.op = "load_from_wfl"
     /\ VersionParts(WflVersion(ret.d)).ok
     /\ IsBehind(VersionParts(WflVersion(ret.d)).parts, VersionParts(version).parts)) =>
        /\ ret.err = ""
        /\ ret.log = <<"WARNING">>
        /\ SameSetup(paw.wfman, ret.paw.wfman)
        /\ ret.opman = opman

-----------------------------------------------------------------------------
(* Properties of the calls that change one operation *)

\* C14: set_op_enabled(tag, flag) changes only the enable flag of that operation's
\* item: the tags and their order, the flags of the other items, every input locator
\* and every stored value are as before, and after set_op_enabled(tag, False) the
\* operation is still retrieved at tag.
C14_SetOpEnabledFrame ==
    (ret.op = "set_op_enabled" /\ ret.err = "") =>
        /\ wf.tree = ret.before.tree
        /\ wf.inputs = ret.before.inputs /\ wf.outputs = ret.before.outputs
        /\ list_op_tags(wf) = list_op_tags(ret.before)
        /\ ChildTags(wf.root_item) = ChildTags(ret.before.root_item)
        /\ \A i \in 1..Len(ret.before.root_item.children) :
               IF ret.before.root_item.children[i].tag = ret.op_tag
               THEN wf.root_item.children[i] =
                        [ret.before.root_item.children[i] EXCEPT !.flags.enable = ret.flag]
               ELSE wf.root_item.children[i] = ret.before.root_item.children[i]
        /\ get_data_from_uri(wf, ret.op_tag).ok
        /\ get_data_from_uri(wf, ret.op_tag).v = get_data_from_uri(ret.before, ret.op_tag).v

C14_Witness ==
    /\ ret.op = "set_op_enabled" /\ ret.err = "" /\ ~ret.flag
    /\ n_ops(wf) = 2
    /\ \E t \in TagSet(wf) : t # ret.op_tag /\ EnableFlag(wf, t)
    /\ \E t \in TagSet(wf) :
           \E j \in 1..Len(OpAt(wf, t).input_locator) : OpAt(wf, t).input_locator[j].il.val # None

-----------------------------------------------------------------------------
(* Properties of the inputs and outputs of a Workflow *)

\* the URIs connected at a port
PortUriSet(x) == IF x.tp = "str" THEN {x.s} ELSE {x.xs[i].s : i \in 1..Len(x.xs)}

\* what is connected at the port called name
PortAt(d, name) == d[IndexOf(name, [i \in 1..Len(d) |-> d[i].k])].x

\* uri is the URI of an input of an operation of w
IsOpInput(w, uri) ==
    \E t \in TagSet(w) : \E j \in 1..Len(OpAt(w, t).input_locator) :
        uri = InputUri(t, OpAt(w, t).input_locator[j].k)

\* C16: set_wf_input(name, value), the port connected to one or more operation inputs,
\* sets the locator value of every connected input to value and changes no other
\* locator.
C16_SetWfInputSetsAll ==
    (/\ ret.op = "set_wf_input"
     /\ InSeq(ret.name, [i \in 1..Len(ret.before.inputs) |-> ret.before.inputs[i].k])
     /\ \A u \in PortUriSet(PortAt(ret.before.inputs, ret.name)) : IsOpInput(ret.before, u)) =>
        /\ ret.err = ""
        /\ TagSet(wf) = TagSet(ret.before)
        /\ \A t \in TagSet(wf) : \A j \in 1..Len(OpAt(wf, t).input_locator) :
               IF InputUri(t, OpAt(wf, t).input_locator[j].k)
                      \in PortUriSet(PortAt(ret.before.inputs, ret.name))
               THEN OpAt(wf, t).input_locator[j].il.val = ret.val
               ELSE OpAt(wf, t).input_locator[j] = OpAt(ret.before, t).input_locator[j]

\* C17: wf_outputs_dict returns, for every connected output, the values now stored at
\* all the URIs connected to it, as a list of values when several are connected.
C17_WfOutputsCollectsAll ==
    (/\ ret.op = "wf_outputs_dict"
     /\ \A i \in 1..Len(wf.outputs) :
            \A u \in PortUriSet(wf.outputs[i].x) : get_data_from_uri(wf, u).ok) =>
        /\ ret.err = ""
        /\ Len(ret.v) = Len(wf.outputs)
        /\ \A i \in 1..Len(wf.outputs) :
               /\ ret.v[i].k = wf.outputs[i].k
               /\ ret.v[i].x =
                      IF wf.outputs[i].x.tp = "str"
                      THEN get_data_from_uri(wf, wf.outputs[i].x.s).v
                      ELSE List([j \in 1..Len(wf.outputs[i].x.xs) |->
                                    get_data_from_uri(wf, wf.outputs[i].x.xs[j].s).v])

-----------------------------------------------------------------------------
(* Properties of the locators that are saved *)

\* what wfl_dict writes for the inputs of the operation at opname in the workflow
\* called wfname
SavedInputs(d, wfname, opname) ==
    LET ws == d.WORKFLOWS[IndexOf(wfname, [i \in 1..Len(d.WORKFLOWS) |-> d.WORKFLOWS[i].k])].x
    IN  ws[IndexOf(opname, [i \in 1..Len(ws) |-> ws[i].k])].x.inputs

-----------------------------------------------------------------------------
(* Properties of the stack: what is scheduled, and in which stage *)

\* the URIs that the operation at tag t makes valid once it is in the stack
ExposedBy(w, t) ==
    {get_valid_wf_inputs(t, OpAt(w, t))[i] : i \in 1..Len(get_valid_wf_inputs(t, OpAt(w, t)))}

ExposedByAll(w, tags) == UNION {ExposedBy(w, t) : t \in tags}

\* the workflow-item inputs of the operation at t reference URIs, all of them in uris
RefsWithin(w, t, uris) ==
    \A i \in WfItemInputs(OpAt(w, t)) :
        /\ OpAt(w, t).input_locator[i].il.val.tp \in {"str", "list"}
        /\ PortUriSet(OpAt(w, t).input_locator[i].il.val) \subseteq uris

EnabledTags(w) == {t \in TagSet(w) : EnableFlag(w, t)}

\* the enabled operations that can be reached by taking, again and again, those whose
\* references are exposed by the ones already taken
RECURSIVE Reachable(_, _)
Reachable(w, taken) ==
    IF {t \in EnabledTags(w) : RefsWithin(w, t, ExposedByAll(w, taken))} \subseteq taken
    THEN taken
    ELSE Reachable(w, taken \cup {t \in EnabledTags(w) : RefsWithin(w, t, ExposedByAll(w, taken))})

\* the places of the stack where tag t stands
PlacesOf(stk, t) == {<<k, j>> \in (1..Len(stk)) \X (1..2) : j <= Len(stk[k]) /\ stk[k][j] = t}

\* C19: when the references of every enabled operation can be satisfied in some order,
\* the stack that execution_stack returns holds every enabled operation exactly once.
C19_PlanHoldsEveryEnabledOp ==
    (ret.op = "execution_stack" /\ Reachable(wf, {}) = EnabledTags(wf)) =>
        \A t \in EnabledTags(wf) : Cardinality(PlacesOf(ret.stk, t)) = 1

\* C20: in every stack returned, each workflow-item input of an operation in stage k
\* references a URI exposed by an operation of a stage before k.
C20_RefsPointToEarlierStages ==
    ret.op = "execution_stack" =>
        \A k \in 1..Len(ret.stk) : \A j \in 1..Len(ret.stk[k]) :
            RefsWithin(wf, ret.stk[k][j],
                       ExposedByAll(wf, UNION {{ret.stk[m][n] : n \in 1..Len(ret.stk[m])} : m \in 1..(k-1)}))

C20_Witness ==
    /\ ret.op = "execution_stack"
    /\ Len(ret.stk) = 2
    /\ \E i \in WfItemInputs(OpAt(wf, ret.stk[2][1])) :
           OpAt(wf, ret.stk[2][1]).input_locator[i].il.val.tp = "str"

\* the tags that stand in the stack
Scheduled(stk) == UNION {{stk[m][n] : n \in 1..Len(stk[m])} : m \in 1..Len(stk)}

\* C21: when execution_stack stops with enabled operations not in the stack, each of
\* them has a workflow-item input whose reference is not exposed by any operation of
\* the stack; the stack built so far is returned with the diagnostics.
C21_UnscheduledHaveUnexposedRef ==
    ret.op = "execution_stack" =>
        \A t \in EnabledTags(wf) \ Scheduled(ret.stk) :
            ~RefsWithin(wf, t, ExposedByAll(wf, Scheduled(ret.stk)))

\* C22: an operation whose enable flag is false stands in no stage of the stack, and
\* execute runs no such operation, whatever the other operations and locators are.
C22_DisabledNeverScheduled ==
    ret.op \in {"execution_stack", "execute"} =>
        \A t \in TagSet(wf) \ EnabledTags(wf) :
            /\ t \notin Scheduled(ret.stk)
            /\ ret.op = "execute" => ~InSeq(t, ret.ran)

\* a stack was built that holds an operation, while a disabled operation with no
\* reference to wait for was left out
C22_Witness ==
    /\ ret.op = "execution_stack"
    /\ Scheduled(ret.stk) # {}
    /\ \E t \in TagSet(wf) \ EnabledTags(wf) : RefsWithin(wf, t, {})

\* C23: for every disabled operation, the diagnostics that execution_stack returns
\* hold an entry at the operation's tag that says the operation is disabled.
C23_DisabledIsDiagnosed ==
    ret.op = "execution_stack" =>
        \A t \in TagSet(wf) \ EnabledTags(wf) :
            /\ t \in DOMAIN ret.diagnostics
            /\ ret.diagnostics[t].text = "Operation is disabled"

\* the reference held by input i of the operation at t is not exposed by the stack
Unresolved(w, t, i, stk) ==
    ~(/\ OpAt(w, t).input_locator[i].il.val.tp \in {"str", "list"}
      /\ PortUriSet(OpAt(w, t).input_locator[i].il.val) \subseteq ExposedByAll(w, Scheduled(stk)))

\* the entry at u is the diagnostic of input i of the blocked operation at t: keyed by
\* the input's URI, with a reason that names the reference, which is unresolved
DiagnosticOf(w, diagnostics, stk, u, t, i) ==
    /\ u = InputUri(t, OpAt(w, t).input_locator[i].k)
    /\ u \in DOMAIN diagnostics
    /\ diagnostics[u].text # ""
    /\ diagnostics[u].val = OpAt(w, t).input_locator[i].il.val
    /\ Unresolved(w, t, i, stk)

\* C24: every diagnostic returned for a blocked operation is keyed by the URI of the
\* offending input and carries a reason naming the unresolved reference, and every
\* enabled operation left out of the stack has at least one such entry.
C24_DiagnosticsNameUnresolved ==
    ret.op = "execution_stack" =>
        /\ \A u \in DOMAIN ret.diagnostics :
               ret.diagnostics[u].text # "" =>
                   \E t \in EnabledTags(wf) \ Scheduled(ret.stk) :
                       \E i \in WfItemInputs(OpAt(wf, t)) :
                           DiagnosticOf(wf, ret.diagnostics, ret.stk, u, t, i)
        /\ \A t \in EnabledTags(wf) \ Scheduled(ret.stk) :
               \E i \in WfItemInputs(OpAt(wf, t)) :
                   DiagnosticOf(wf, ret.diagnostics, ret.stk,
                                InputUri(t, OpAt(wf, t).input_locator[i].k), t, i)

\* C26: an enabled operation whose workflow-item locator holds a list of URIs is in
\* the stack once every URI of the list, and every other reference of the operation,
\* is exposed by the operations of the stack.
C26_ListLocatorBecomesReady ==
    ret.op = "execution_stack" =>
        \A t \in EnabledTags(wf) :
            (/\ \E i \in WfItemInputs(OpAt(wf, t)) :
                    OpAt(wf, t).input_locator[i].il.val.tp = "list"
             /\ RefsWithin(wf, t, ExposedByAll(wf, Scheduled(ret.stk) \ {t})))
                => t \in Scheduled(ret.stk)

\* the URIs of the operation at a: its own, those of its inputs and outputs mappings,
\* and that of each input and each output
UrisOf(w, a) ==
    {a, a \o <<Dot>> \o inputs_tag, a \o <<Dot>> \o outputs_tag}
    \cup {InputUri(a, Keys(OpAt(w, a).inputs)[i]) : i \in 1..Len(Keys(OpAt(w, a).inputs))}
    \cup {OutputUri(a, Keys(OpAt(w, a).outputs)[i]) : i \in 1..Len(Keys(OpAt(w, a).outputs))}

\* the stage of the stack where t stands; 0 when it stands in none
StageOf(stk, t) ==
    IF t \in Scheduled(stk) THEN CHOOSE k \in 1..Len(stk) : InSeq(t, stk[k]) ELSE 0

\* those of the operations tags whose URIs input i of the operation at b references
Upstream(w, tags, b, i) ==
    {a \in tags : OpAt(w, b).input_locator[i].il.val.s \in UrisOf(w, a)}

\* the last of the stages where the operations referenced by b stand; 0 when b
\* references none
LastStageBefore(w, stk, b) ==
    LET stages == {0} \cup {StageOf(stk, a) :
                       a \in UNION {Upstream(w, Scheduled(stk), b, i) : i \in WfItemInputs(OpAt(w, b))}}
    IN  CHOOSE m \in stages : \A n \in stages : n <= m

\* C25: an enabled operation b whose workflow-item inputs each hold one URI is in the
\* stack exactly when every such URI is a URI of an operation of the stack other than
\* b (the operation itself, its inputs or outputs mapping, or one of its inputs or
\* outputs), and then b stands in the stage after the last of those operations; a
\* URI that no operation of the stack has never lets b in.
C25_ReadyTheRoundAfter ==
    ret.op = "execution_stack" =>
        \A b \in EnabledTags(wf) :
            (\A i \in WfItemInputs(OpAt(wf, b)) :
                 OpAt(wf, b).input_locator[i].il.val.tp \in {"str", "none"}) =>
                /\ b \in Scheduled(ret.stk) <=>
                       \A i \in WfItemInputs(OpAt(wf, b)) :
                           /\ OpAt(wf, b).input_locator[i].il.val.tp = "str"
                           /\ Upstream(wf, Scheduled(ret.stk) \ {b}, b, i) # {}
                /\ b \in Scheduled(ret.stk) =>
                       StageOf(ret.stk, b) = LastStageBefore(wf, ret.stk, b) + 1

\* b stands in the second stage by a reference to an input of the operation before it
C25_Witness ==
    /\ ret.op = "execution_stack"
    /\ Len(ret.stk) = 2
    /\ \E i \in WfItemInputs(OpAt(wf, ret.stk[2][1])) :
           OpAt(wf, ret.stk[2][1]).input_locator[i].il.val
               = Text(InputUri(ret.stk[1][1], <<"n">>))

-----------------------------------------------------------------------------
(* Properties of Workflows side by side *)

-----------------------------------------------------------------------------
(* Properties of what delete_uri leaves *)

\* C30: delete_uri(u) leaves every registered URI that is neither u nor beneath u in
\* all_uris and resolving to the value it had, also a URI that merely contains the
\* text of u.
C30_DeleteLeavesOthers ==
    (ret.op = "delete_uri" /\ ret.ok /\ NoEmptyTag(ret.uri)) =>
        \A i \in 1..Len(ret.was) :
            (/\ ret.was[i] # ret.uri
             /\ ~Beneath(ret.was[i], ret.uri)
             /\ get_from_uri(ret.before, ret.was[i]).ok) =>
                /\ contains_uri(dt, ret.was[i])
                /\ get_from_uri(dt, ret.was[i]).ok
                /\ get_from_uri(dt, ret.was[i]).v = get_from_uri(ret.before, ret.was[i]).v

-----------------------------------------------------------------------------
(* Properties of the TreeItems kept beside the data *)

\* the URIs of the ancestors of uri: its text up to each of its dots
Ancestors(uri) == {SubSeq(uri, 1, i - 1) : i \in {j \in 1..Len(uri) : uri[j] = Dot}}

NodeAt(w, uri) == item_from_uri(w, uri).ok

\* C31: set_item(uri, data) on a URI whose parent has neither a TreeItem nor data yet
\* succeeds: afterwards there is a TreeItem for every ancestor of uri and for uri,
\* and the DictTree returns data for uri.
C31_SetItemBuildsAncestors ==
    (/\ ret.op = "set_item" /\ NoEmptyTag(ret.uri) /\ HasDot(ret.uri)
     /\ ~NodeAt(ret.before, UpToLastDot(ret.uri))
     /\ ~get_data_from_uri(ret.before, UpToLastDot(ret.uri)).ok) =>
        /\ ret.err = ""
        /\ \A a \in Ancestors(ret.uri) \cup {ret.uri} : NodeAt(wf, a)
        /\ get_data_from_uri(wf, ret.uri).ok
        /\ get_data_from_uri(wf, ret.uri).v = ret.data

\* the position of the TreeItem at uri, and the TreeItem that holds it
PosOf(w, uri) == item_from_uri(w, uri).pos

ParentOfItem(w, pos) == ItemAt(w.root_item, SubSeq(pos, 1, Len(pos) - 1))

\* C32: set_item on a URI that has a TreeItem already keeps that TreeItem: it is
\* found at the same position among the same siblings and its flags are the ones
\* it had, an enable flag set to false before included.
C32_SetItemKeepsNode ==
    (ret.op = "set_item" /\ NoEmptyTag(ret.uri) /\ NodeAt(ret.before, ret.uri)) =>
        /\ NodeAt(wf, ret.uri)
        /\ PosOf(wf, ret.uri) = PosOf(ret.before, ret.uri)
        /\ ItemAt(wf.root_item, PosOf(wf, ret.uri)).flags
               = ItemAt(ret.before.root_item, PosOf(ret.before, ret.uri)).flags
        /\ ChildTags(ParentOfItem(wf, PosOf(wf, ret.uri)))
               = ChildTags(ParentOfItem(ret.before, PosOf(ret.before, ret.uri)))

\* an item that was disabled and is not the last of its siblings was set again
C32_Witness ==
    /\ ret.op = "set_item" /\ ret.err = "" /\ NodeAt(ret.before, ret.uri)
    /\ ~ItemAt(ret.before.root_item, PosOf(ret.before, ret.uri)).flags.enable
    /\ Last(PosOf(ret.before, ret.uri))
           < Len(ParentOfItem(ret.before, PosOf(ret.before, ret.uri)).children)
    /\ ~ItemAt(wf.root_item, PosOf(wf, ret.uri)).flags.enable

\* C33: after remove_item(uri) the DictTree neither registers nor resolves uri, no
\* TreeItem is found at uri, and the children of uri's parent are the ones it had
\* without the one tagged as uri, in the order and with the flags they had.
C33_RemoveItemRemovesNode ==
    (ret.op = "remove_op" /\ ret.err = "" /\ NoEmptyTag(ret.op_tag)) =>
        /\ ~contains_uri(wf.tree, ret.op_tag)
        /\ ~get_data_from_uri(wf, ret.op_tag).ok
        /\ ~NodeAt(wf, ret.op_tag)
        /\ ItemAt(wf.root_item, SubSeq(PosOf(ret.before, ret.op_tag), 1,
                                       Len(PosOf(ret.before, ret.op_tag)) - 1)).children
               = SelectSeq(ParentOfItem(ret.before, PosOf(ret.before, ret.op_tag)).children,
                           LAMBDA c : c.tag # Last(Split(ret.op_tag)))

\* the first of several children was removed and a disabled one is left behind
C33_Witness ==
    /\ ret.op = "remove_op" /\ ret.err = "" /\ NoEmptyTag(ret.op_tag)
    /\ Last(PosOf(ret.before, ret.op_tag)) = 1
    /\ \E c \in {ParentOfItem(ret.before, PosOf(ret.before, ret.op_tag)).children[i] :
                     i \in 2..Len(ParentOfItem(ret.before,
                                                PosOf(ret.before, ret.op_tag)).children)} :
           ~c.flags.enable

\* the URIs of the TreeItems beneath itm, itm being at prefix
RECURSIVE NodeUris(_, _)
NodeUris(itm, prefix) ==
    UNION {{prefix \o itm.children[i].tag}
               \cup NodeUris(itm.children[i], prefix \o itm.children[i].tag \o <<Dot>>) :
           i \in 1..Len(itm.children)}

\* the URIs of the keys and list indices beneath x, as build_tree lays them out
RECURSIVE KeyUris(_, _)
KeyUris(x, prefix) ==
    IF x.tp # "dict" THEN {}
    ELSE UNION {{prefix \o x.items[i].k}
                    \cup KeyUris(x.items[i].x, prefix \o x.items[i].k \o <<Dot>>) :
                i \in 1..Len(x.items)}

Mirrors(w) == NodeUris(w.root_item, <<>>) = KeyUris(build_tree(w.tree.root), <<>>)

\* C34: a set_item or remove_item that succeeds on a TreeModel whose TreeItems mirror
\* its DictTree leaves them mirroring it: there is a TreeItem at a URI exactly when
\* the data has a key or list index there, also when set_item puts a mapping with
\* fewer keys, or a leaf, where a mapping was.
C34_NodesMirrorStore ==
    (ret.op \in {"set_item", "remove_op"} /\ ret.err = "" /\ Mirrors(ret.before)) =>
        Mirrors(wf)

\* C39: n_ops(), the number of TreeItems beneath the root, is the number of tags
\* that list_op_tags() gives, the keys of the DictTree's root, after any calls of
\* add_op, remove_op and set_item.
C39_OpCountsAgree == n_ops(wf) = Len(list_op_tags(wf))

-----------------------------------------------------------------------------
(* Properties of the version test of load_from_wfl *)

\* (major, minor) of a is behind (major, minor) of b, major compared first
PairBehind(a, b) == a[1] < b[1] \/ (a[1] = b[1] /\ a[2] < b[2])

\* C35: load_from_wfl logs the version warning exactly when the (major, minor) of the
\* saved version is behind the (major, minor) of the running version, compared as a
\* pair with major first; a saved version that is equal or ahead gives no warning,
\* also when its minor is smaller and its major larger.
C35_WarnsWhenBehind ==
    (ret.op = "load_from_wfl" /\ VersionParts(WflVersion(ret.d)).ok) =>
        (ret.log = <<"WARNING">>
            <=> PairBehind(VersionParts(WflVersion(ret.d)).parts, VersionParts(version).parts))

-----------------------------------------------------------------------------
(* Properties of URIs that end in an empty segment *)

\* C36: set_uri and delete_uri called with an empty URI, or with a URI whose last
\* segment is empty, raise, and leave the data and all_uris as they were.
C36_EmptySegmentRaises ==
    (ret.op \in {"set_uri", "delete_uri"} /\ Last(Split(ret.uri)) = <<>>) =>
        (~ret.ok /\ dt = ret.before)

-----------------------------------------------------------------------------
(* Properties of what execute runs *)

\* the number of times x stands in q
CountIn(x, q) == Cardinality({i \in 1..Len(q) : q[i] = x})

\* C37: execute runs each operation of the execution stack once and no other
\* operation; an operation that is not in the stack has the inputs, the outputs and
\* the entry in the tree that it had before.
C37_RunsEachOnce ==
    ret.op = "execute" =>
        \A t \in TagSet(ret.before) :
            IF t \in Scheduled(ret.stk) THEN CountIn(t, ret.ran) = 1
            ELSE CountIn(t, ret.ran) = 0 /\ HasOp(wf, t) /\ OpAt(wf, t) = OpAt(ret.before, t)

-----------------------------------------------------------------------------
(* Properties of disabling and enabling again *)

-----------------------------------------------------------------------------
(* Properties of the thread slots *)

\* C40: when next_available_thread returns idx, slot idx holds no running thread:
\* it is empty, or it is slot 0 and its thread is finished; and when
\* wait_for_thread(i) returns, slot i is empty or its thread is finished, whatever
\* registrations, finish_thread calls and thread completions came in between.
C40_ReturnedSlotIsFree ==
    (pc.at = "returned") =>
        /\ ret.op = "next_available_thread" =>
               \/ wf_threads[ret.idx + 1] = None
               \/ ret.idx = 0 /\ ret.waited /\ wf_threads[1].id \in finished
        /\ ret.op = "wait_for_thread" =>
               \/ wf_threads[ret.idx + 1] = None
               \/ wf_threads[ret.idx + 1].id \in finished

\* next_available_thread found slot 0 taken, waited, and returned 0 with the
\* thread still in the slot and finished
C40_Witness ==
    /\ pc.at = "returned"
    /\ ret.op = "next_available_thread" /\ ret.waited
    /\ wf_threads[1] # None /\ wf_threads[1].id \in finished

====
